---------------------------- MODULE Spec2Model ----------------------------
(***************************************************************************)
(* Model of the resumable batch-collection engine of                       *)
(* blockchain-data-analyzer:                                               *)
(*   - BlockchainService (retryOperation, processBatchWithType,            *)
(*     analyzeOrganization),                                               *)
(*   - FileSystemStorage (saveTransactions, saveTokenTransfers,            *)
(*     saveContractEvents and the state.json read-modify-write),           *)
(*   - the paged Etherscan account API behind EtherscanClient.             *)
(* Block numbers, the window size and the page size are scaled down; the   *)
(* timestamps kept in state.json are left out (no claim reads them).       *)
(***************************************************************************)
EXTENDS Integers, Sequences, FiniteSets, TLC

\* ------------------------------------------------------------------ bounds
MaxBlock == 3        \* blocks are 0..MaxBlock; the chain head is MaxBlock
MaxItems == 3        \* items the provider holds per data type
MaxFaults == 1       \* operations (a page fetch, a save) that fail, per behaviour of Spec
MaxFaultsBatch == 1  \* the same, per behaviour of SpecBatch
MaxOther == 1        \* items of each data type but 'normal', in Spec
MaxRuns == 2         \* invocations of analyzeOrganization
MaxSaves == 2        \* calls made on the storage directly (SpecStore)
MaxCalls == 3        \* schedule() calls (SpecGate)
MaxTicks == 6        \* clock ticks (SpecGate)
MaxRequests == 2     \* makeRequest calls (SpecClient)
MaxClientTicks == 1  \* clock ticks while no timer is set (SpecClient)
MaxBackoffs == 3     \* backoffs of all makeRequest calls together (SpecClient)
MaxOps == 2          \* withRetry calls (SpecProvider)
MaxProvTicks == 2    \* clock ticks while no timer is set (SpecProvider)
MaxDaoSaves == 2     \* saves of DAO events (SpecDao)
MaxId == 2           \* proposal ids 1..MaxId (SpecDao)
MaxDaoBlock == 2     \* block numbers of DAO events 1..MaxDaoBlock (SpecDao)
MaxFileWrites == 3   \* writeJSONSafely calls (SpecFile)

\* ------------------------------------------------ constants of the program
MAX_RECORDS_PER_CALL == 2    \* 100 in the source, scaled
BLOCK_RANGE == 2             \* 50000 in the source, scaled
MAX_RETRIES == 3
RETRY_DELAY == 10000
Omitted == -1                \* an option that was not given (undefined)
EndBlockDefault == 99999999  \* EtherscanClient: options.endBlock || 99999999
requestsPerSecond == 2       \* RateLimiter constructor argument (5 in the README), scaled
timeWindow == 4              \* RateLimiter constructor argument (1000 ms), scaled

MIN_REQUEST_INTERVAL == 2    \* EtherscanClient: 250 ms, scaled
INITIAL_RETRY_DELAY == 1     \* EtherscanClient: 1000 ms, scaled
CLIENT_MAX_RETRIES == 3      \* EtherscanClient.MAX_RETRIES
maxRetries == 3              \* BaseProvider: config.maxRetries || 3
rateLimitDelay == 2          \* BaseProvider: 200 ms, scaled
RETRY_UNIT == 1              \* BaseProvider.withRetry: 1000 ms, scaled
providerLastRequestTime == 0 \* BaseProvider: readonly lastRequestTime = 0

\* Date.now() when the program starts: far above timeWindow
StartTime == 2 * timeWindow

Types == {"normal", "internal", "tokenTransfers"}

Min(a, b) == IF a <= b THEN a ELSE b
Max(a, b) == IF a >= b THEN a ELSE b

Range(s) == {s[i] : i \in 1..Len(s)}

\* Math.max(...xs) of a non-empty list of numbers
RECURSIVE MaxOf(_)
MaxOf(xs) == IF Len(xs) = 1 THEN xs[1] ELSE Max(xs[1], MaxOf(Tail(xs)))

\* ----------------------------------------------------------------- errors
\* An error value: whether it is an EtherscanError, and its message.
NoError == [etherscan |-> FALSE, message |-> "none"]
ErrNoTransactions == [etherscan |-> TRUE, message |-> "No transactions found"]
ErrRateLimit == [etherscan |-> TRUE, message |-> "Max rate limit reached"]
ErrTimeout == [etherscan |-> TRUE, message |-> "Network error: timeout of 60000ms exceeded"]
ErrOther == [etherscan |-> TRUE, message |-> "Invalid API Key"]
ErrGeneric == [etherscan |-> FALSE, message |-> "socket hang up"]
ErrStorage == [etherscan |-> FALSE, message |-> "Failed to save"]
ErrExhausted == [etherscan |-> FALSE, message |-> "Failed after 3 attempts"]

ProviderErrors == {ErrNoTransactions, ErrRateLimit, ErrTimeout, ErrOther, ErrGeneric}

\* String.prototype.includes on the messages above
Includes(message, needle) ==
    CASE needle = "timeout" -> message = ErrTimeout.message
      [] needle = "rate limit" -> message = ErrRateLimit.message
      [] needle = "No transactions found" -> message = ErrNoTransactions.message
      [] needle = "Max rate limit reached" -> message = ErrRateLimit.message
      [] OTHER -> FALSE

\* ------------------------------------------------------------ persistence
NoState == [absent |-> TRUE]

Cursor0 == [lastBlock |-> 0, count |-> 0]

InitialState ==
    [lastProcessedBlock |-> 0,
     totalTransactions |-> 0,
     transactionTypes |-> [t \in Types |-> Cursor0],
     events |-> Cursor0]

\* initializeState without its pathExists test
initializeStateAlways(s) == InitialState

\* lines 399-432
initializeState(s) == IF s = NoState THEN InitialState ELSE s

\* updateTransactionState with the cursor assigned rather than raised
updateTransactionStateAssign(s, type, lastBlock, count) ==
    LET st == initializeState(s) IN
    [st EXCEPT
        !.transactionTypes[type].lastBlock = lastBlock,
        !.transactionTypes[type].count = @ + count,
        !.lastProcessedBlock = Max(@, lastBlock),
        !.totalTransactions = @ + count]

updateTransactionState(s, type, lastBlock, count) ==
    LET st == initializeState(s) IN
    [st EXCEPT
        !.transactionTypes[type].lastBlock = Max(@, lastBlock),
        !.transactionTypes[type].count = @ + count,
        !.lastProcessedBlock = Max(@, lastBlock),
        !.totalTransactions = @ + count]

\* updateTokenTransferState with the count assigned rather than added
updateTokenTransferStateSetCount(s, lastBlock, count) ==
    LET st == initializeState(s) IN
    [st EXCEPT
        !.transactionTypes["tokenTransfers"].lastBlock = Max(@, lastBlock),
        !.transactionTypes["tokenTransfers"].count = count,
        !.lastProcessedBlock = Max(@, lastBlock)]

\* lines 239-265
updateTokenTransferState(s, lastBlock, count) ==
    LET st == initializeState(s) IN
    [st EXCEPT
        !.transactionTypes["tokenTransfers"].lastBlock = Max(@, lastBlock),
        !.transactionTypes["tokenTransfers"].count = @ + count,
        !.lastProcessedBlock = Max(@, lastBlock)]

\* updateEventState counting the events as transactions
updateEventStateCounted(s, lastBlock, count) ==
    IF s = NoState THEN s
    ELSE [s EXCEPT !.events.lastBlock = Max(@, lastBlock),
                   !.events.count = @ + count,
                   !.totalTransactions = @ + count]

updateEventState(s, lastBlock, count) ==
    IF s = NoState THEN s
    ELSE [s EXCEPT !.events.lastBlock = Max(@, lastBlock),
                   !.events.count = @ + count]

\* Array.prototype.sort by blockNumber (stable): insertion of x into a sorted list
RECURSIVE InsertByBlock(_, _)
InsertByBlock(x, s) ==
    IF s = <<>> THEN <<x>>
    ELSE IF x.blockNumber < s[1].blockNumber THEN <<x>> \o s
    ELSE <<s[1]>> \o InsertByBlock(x, Tail(s))

RECURSIVE SortByBlock(_)
SortByBlock(s) ==
    IF s = <<>> THEN <<>>
    ELSE InsertByBlock(s[Len(s)], SortByBlock(SubSeq(s, 1, Len(s) - 1)))

BlockNumbers(batch) == [i \in 1..Len(batch) |-> batch[i].blockNumber]

\* The state.json a successful save of a non-empty batch of `type` leaves.
StateAfterSave(s, type, batch) ==
    IF type = "tokenTransfers"
    THEN updateTokenTransferState(s, MaxOf(BlockNumbers(batch)), Len(batch))
    ELSE updateTransactionState(s, type, MaxOf(BlockNumbers(batch)), Len(batch))

\* The rows a successful save appends to the CSV file of `type`.
RowsOfSave(type, batch) ==
    IF type = "tokenTransfers" THEN batch ELSE SortByBlock(batch)


\* --------------------------------------------------------------- provider
\* The data sets a provider may hold for one data type: block numbers in
\* ascending order; item i of the list is the item with hash i.
Datasets ==
    {d \in UNION {[1..n -> 0..MaxBlock] : n \in 0..MaxItems} :
        \A i \in 1..(Len(d) - 1) : d[i] <= d[i + 1]}

\* What the provider holds: at most MaxItems items over the data types.
Chains ==
    {c \in [Types -> Datasets] :
        /\ Len(c["normal"]) + Len(c["internal"]) + Len(c["tokenTransfers"]) <= MaxItems
        /\ Len(c["internal"]) <= MaxOther
        /\ Len(c["tokenTransfers"]) <= MaxOther}

ItemsOf(d) == [i \in 1..Len(d) |-> [blockNumber |-> d[i], hash |-> i]]

\* Etherscan account API (txlist, txlistinternal, tokentx) as EtherscanClient
\* calls it: startblock, endblock, page, offset, sort = asc.
EtherscanPage(d, startBlock, endBlock, page, offset) ==
    LET startblock == IF startBlock = 0 THEN 0 ELSE startBlock
        endblock == IF endBlock = 0 THEN EndBlockDefault ELSE endBlock
        InRange(it) == it.blockNumber >= startblock /\ it.blockNumber <= endblock
        matching == SelectSeq(ItemsOf(d), InRange)
    IN SubSeq(matching, (page - 1) * offset + 1, Min(page * offset, Len(matching)))

\* ------------------------------------------------------ BlockchainService
VARIABLES
    chain,        \* provider: data type -> data set
    state,        \* state.json of the organization (NoState when there is none)
    csv,          \* data type -> rows of the type's CSV file
    opts,         \* DataCollectionOptions of the current run
    snap,         \* analyzeOrganization's local `state` (read once, at the start)
    pc,           \* idle | window | fetch | save | done | failed
    queue,        \* data types still to collect in this run
    typ,          \* data type of the current processBatchWithType call
    startBlock,   \* its startBlock argument
    endBlock,     \* its endBlock argument
    currentStart, currentEnd, page,
    attempt,      \* retryOperation's loop counter
    items,        \* the page waiting to be saved
    thrown,       \* the error the run ended with
    attemptErrs,  \* errors of the attempts of the current retryOperation call
    fetches,      \* history: provider calls made by the current batch
    failedFetch,  \* history: a provider call of the current batch has failed
    visited,      \* history: windows entered by the current batch
    sunk,         \* history: saveFn calls of this run
    handed,       \* history: data type -> hashes ever handed to the sink
    state0,       \* history: state.json when the run began collecting
    batchState0,  \* history: state.json when the current batch began
    prev,         \* history: outcome and resume flag of the previous run
    runs,
    faultsLeft,   \* failing operations the environment may still produce
    delays,       \* history: the waits of the current retryOperation call (ms)
    upd,          \* the state updates in flight (interleaved updates only)
    tmp,          \* state.json.tmp (NoState when there is none)
    eventsFile,   \* rows of the contract's event files
    saves,        \* sink calls made on the storage directly
    lastSave,     \* history: the last of them
    now,          \* Date.now()
    gateQueue,    \* RateLimiter.queue: the calls waiting, oldest first
    processing,   \* RateLimiter.processing
    lastRequestTime,
    loops,        \* the processQueue invocations: where each one stands
    scheduled,    \* history: schedule() calls made so far
    released,     \* history: <<call, time>> of every call started, in order
    inFlight,     \* calls started and not yet settled
    owner,        \* history: the producer that made each schedule() call
    outcomes,     \* history: the promises settled, with the call that settled each
    clientNow,    \* EtherscanClient: Date.now()
    clientLast,   \* EtherscanClient.lastRequestTime
    reqs,         \* the makeRequest calls: where each one stands
    sent,         \* history: <<call, time>> of every HTTP request sent
    provNow,      \* BaseProvider: Date.now()
    provCall,     \* the withRetry call under way
    provStarted,  \* history: the times at which operation() was invoked
    provLog,      \* history: the withRetry calls that have ended
    proposalsFile, \* DAOEventStorage: governance/proposals.json (parsed)
    votesFile,    \* governance/votes.json (parsed)
    daoSaves,     \* save calls made on the DAOEventStorage
    daoLast,      \* history: the last of them
    fileTarget,   \* writeJSONSafely: the content of filePath
    fileTemp,     \* the content of filePath.tmp
    fileBackup,   \* the content of filePath.backup
    fileCall,     \* the writeJSONSafely call under way
    fileWrites    \* writeJSONSafely calls made

runVars == <<opts, snap, pc, queue, typ, startBlock, endBlock, currentStart,
             currentEnd, page, attempt, items, thrown, attemptErrs, fetches,
             failedFetch, visited, sunk, handed, state0, batchState0, prev, runs, faultsLeft,
             delays>>
storeVars == <<upd, tmp, eventsFile, saves, lastSave>>
gateVars == <<now, gateQueue, processing, lastRequestTime, loops, scheduled,
              released, inFlight, owner, outcomes>>
clientVars == <<clientNow, clientLast, reqs, sent>>
provVars == <<provNow, provCall, provStarted, provLog>>
daoVars == <<proposalsFile, votesFile, daoSaves, daoLast>>
fileVars == <<fileTarget, fileTemp, fileBackup, fileCall, fileWrites>>
extVars == <<clientVars, provVars, daoVars, fileVars>>
vars == <<chain, state, csv, runVars, storeVars, gateVars, extVars>>

CurrentBlock == MaxBlock

OptionSets ==
    [startBlock : {Omitted, 1},
     endBlock : {Omitted, MaxBlock - 1},
     includeInternalTransactions : BOOLEAN,
     includeTokenTransfers : BOOLEAN,
     resume : {FALSE}]

\* the option used as given, without a default
OrElseNoDefault(x, d) == x

\* `x || d` on a number option
OrElse(x, d) == IF x = Omitted \/ x = 0 THEN d ELSE x

\* the resume point taken from the organization's lastProcessedBlock
StartBlockOfGlobal(type, o, st) ==
    IF o.resume /\ st # NoState /\ st.lastProcessedBlock # 0
    THEN st.lastProcessedBlock + 1
    ELSE OrElse(o.startBlock, 0)

\* lines 159-161, 180-182, 202-204
StartBlockOf(type, o, st) ==
    IF o.resume /\ st # NoState /\ st.transactionTypes[type].lastBlock # 0
    THEN st.transactionTypes[type].lastBlock + 1
    ELSE OrElse(o.startBlock, 0)

TypesOf(o) ==
    <<"normal">>
    \o (IF o.includeInternalTransactions THEN <<"internal">> ELSE <<>>)
    \o (IF o.includeTokenTransfers THEN <<"tokenTransfers">> ELSE <<>>)

\* line 75
LoopConditionOffByOne(cs, eb) == cs <= eb + 1
LoopCondition(cs, eb) == cs <= eb

\* line 76, for a window size w
WindowEndWTooLong(cs, eb, w) == Min(cs + w, eb)
WindowEndW(cs, eb, w) == Min(cs + w - 1, eb)
WindowEnd(cs, eb) == WindowEndW(cs, eb, BLOCK_RANGE)

\* lines 44-49
ShouldRetry(error, n) ==
    LET isLastAttempt == n = MAX_RETRIES IN
    ~isLastAttempt /\ (~error.etherscan
                       \/ Includes(error.message, "timeout")
                       \/ Includes(error.message, "rate limit"))

\* lines 51-54: the wait before the next attempt, in ms
RetryDelay(n) == RETRY_DELAY * n

\* line 98: a page shorter than the page size ends the window
ShortPageNever(its) == FALSE
ShortPage(its) == Len(its) < MAX_RECORDS_PER_CALL

\* retryOperation's result when the operation throws `error` on attempt n and
\* is not retried (line 57)
RetryThrows(error, n) == error

RunIdle ==
    /\ snap = NoState
    /\ pc = "idle"
    /\ queue = <<>>
    /\ typ = "normal"
    /\ startBlock = 0 /\ endBlock = 0
    /\ currentStart = 0 /\ currentEnd = 0 /\ page = 1
    /\ attempt = 1
    /\ items = <<>>
    /\ thrown = NoError
    /\ attemptErrs = <<>>
    /\ fetches = 0 /\ failedFetch = FALSE /\ visited = <<>> /\ sunk = <<>>
    /\ handed = [t \in Types |-> {}]
    /\ state0 = NoState /\ batchState0 = NoState
    /\ prev = [outcome |-> "none", resume |-> FALSE]
    /\ runs = 0
    /\ delays = <<>>

NoSave == [op |-> "none", type |-> "none", batch |-> <<>>]

StoreIdle ==
    /\ upd = <<>>
    /\ tmp = NoState
    /\ eventsFile = <<>>
    /\ saves = 0
    /\ lastSave = NoSave

\* RateLimiter after construction (part of every initial state)
GateIdle ==
    /\ now = StartTime
    /\ gateQueue = <<>>
    /\ processing = FALSE
    /\ lastRequestTime = 0
    /\ loops = <<>>
    /\ scheduled = 0
    /\ released = <<>>
    /\ inFlight = {}
    /\ owner = <<>>
    /\ outcomes = <<>>

NoFile == [absent |-> TRUE]
FileOf(content) == [absent |-> FALSE, content |-> content]
NoCall == [pc |-> "none"]

\* EtherscanClient, BaseProvider, DAOEventStorage and the files of
\* writeJSONSafely after construction (part of every initial state)
ExtIdle ==
    /\ clientNow = StartTime
    /\ clientLast = 0
    /\ reqs = <<>>
    /\ sent = <<>>
    /\ provNow = StartTime
    /\ provCall = NoCall
    /\ provStarted = <<>>
    /\ provLog = <<>>
    /\ proposalsFile = NoFile
    /\ votesFile = NoFile
    /\ daoSaves = 0
    /\ daoLast = NoCall
    /\ fileTarget = NoFile
    /\ fileTemp = NoFile
    /\ fileBackup = NoFile
    /\ fileCall = NoCall
    /\ fileWrites = 0

Init ==
    /\ opts \in OptionSets
    /\ chain \in Chains
    /\ \A t \in Types \ Range(TypesOf(opts)) : chain[t] = <<>>
    /\ state = NoState
    /\ csv = [t \in Types |-> <<>>]
    /\ RunIdle
    /\ faultsLeft = MaxFaults
    /\ StoreIdle
    /\ GateIdle
    /\ ExtIdle

\* analyzeOrganization up to the first processBatchWithType call: the stored
\* state is read when resume is set, saveOrganization creates state.json when
\* there is none, endBlock defaults to the chain head.
AnalyzeOrganization(resume) ==
    /\ pc \in {"idle", "done", "failed"}
    /\ runs < MaxRuns
    /\ LET o == [opts EXCEPT !.resume = resume]
           st == IF resume THEN state ELSE NoState
           persisted == initializeState(state)
       IN /\ opts' = o
          /\ snap' = st
          /\ state' = persisted
          /\ state0' = persisted
          /\ batchState0' = persisted
          /\ endBlock' = OrElse(o.endBlock, CurrentBlock)
          /\ typ' = "normal"
          /\ queue' = Tail(TypesOf(o))
          /\ startBlock' = StartBlockOf("normal", o, st)
          /\ currentStart' = StartBlockOf("normal", o, st)
    /\ pc' = "window"
    /\ prev' = [outcome |-> pc, resume |-> opts.resume]
    /\ runs' = runs + 1
    /\ fetches' = 0 /\ failedFetch' = FALSE /\ visited' = <<>> /\ sunk' = <<>>
    /\ thrown' = NoError /\ attemptErrs' = <<>> /\ delays' = <<>>
    /\ items' = <<>> /\ page' = 1 /\ attempt' = 1
    /\ UNCHANGED <<chain, csv, currentEnd, handed, faultsLeft, storeVars, gateVars, extVars>>

\* lines 75-84: a window is entered and its first page requested
EnterWindow ==
    /\ pc = "window"
    /\ LoopCondition(currentStart, endBlock)
    /\ currentEnd' = WindowEnd(currentStart, endBlock)
    /\ page' = 1
    /\ attempt' = 1
    /\ attemptErrs' = <<>>
    /\ delays' = <<>>
    /\ visited' = Append(visited, <<currentStart, WindowEnd(currentStart, endBlock)>>)
    /\ pc' = "fetch"
    /\ UNCHANGED <<failedFetch, chain, state, csv, opts, snap, queue, typ, startBlock, endBlock,
                   currentStart, items, thrown, fetches, sunk, handed, state0,
                   batchState0, prev, runs, faultsLeft, storeVars, gateVars, extVars>>

\* lines 75, 124 and the next call in analyzeOrganization
NextType ==
    /\ pc = "window"
    /\ ~LoopCondition(currentStart, endBlock)
    /\ queue # <<>>
    /\ typ' = Head(queue)
    /\ queue' = Tail(queue)
    /\ startBlock' = StartBlockOf(Head(queue), opts, snap)
    /\ currentStart' = StartBlockOf(Head(queue), opts, snap)
    /\ visited' = <<>>
    /\ fetches' = 0
    /\ failedFetch' = FALSE
    /\ batchState0' = state
    /\ UNCHANGED <<chain, state, csv, opts, snap, pc, endBlock, currentEnd, page,
                   attempt, items, thrown, attemptErrs, sunk, handed,
                   state0, prev, runs, faultsLeft, storeVars, gateVars, extVars, delays>>

\* lines 75, 124, 223: the last batch is over
Complete ==
    /\ pc = "window"
    /\ ~LoopCondition(currentStart, endBlock)
    /\ queue = <<>>
    /\ pc' = "done"
    /\ UNCHANGED <<failedFetch, chain, state, csv, opts, snap, queue, typ, startBlock, endBlock,
                   currentStart, currentEnd, page, attempt, items, thrown,
                   attemptErrs, fetches, visited, sunk, handed, state0,
                   batchState0, prev, runs, faultsLeft, storeVars, gateVars, extVars, delays>>

FetchedPage == EtherscanPage(chain[typ], currentStart, currentEnd, page, MAX_RECORDS_PER_CALL)

\* lines 84-92: the provider answers; an empty page ends the window
FetchEmpty ==
    /\ pc = "fetch"
    /\ FetchedPage = <<>>
    /\ fetches' = fetches + 1
    /\ currentStart' = currentEnd + 1
    /\ pc' = "window"
    /\ UNCHANGED <<failedFetch, chain, state, csv, opts, snap, queue, typ, startBlock, endBlock,
                   currentEnd, page, attempt, items, thrown, attemptErrs, visited,
                   sunk, handed, state0, batchState0, prev, runs, faultsLeft, storeVars, gateVars, extVars, delays>>

\* lines 84-94: the provider answers with items; they go to saveFn
FetchItems ==
    /\ pc = "fetch"
    /\ FetchedPage # <<>>
    /\ fetches' = fetches + 1
    /\ items' = FetchedPage
    /\ pc' = "save"
    /\ UNCHANGED <<failedFetch, chain, state, csv, opts, snap, queue, typ, startBlock, endBlock,
                   currentStart, currentEnd, page, attempt, thrown, attemptErrs,
                   visited, sunk, handed, state0, batchState0, prev, runs,
                   faultsLeft, storeVars, gateVars, extVars, delays>>

\* The first failing attempt of an operation starts a fault; the later attempts
\* of the same retryOperation call belong to it.
FaultAllowed == attempt > 1 \/ faultsLeft > 0
FaultsLeftAfter == IF attempt = 1 THEN faultsLeft - 1 ELSE faultsLeft

\* lines 43-56: the call fails and retryOperation tries again
FetchRetried(error) ==
    /\ pc = "fetch"
    /\ FaultAllowed
    /\ ShouldRetry(error, attempt)
    /\ fetches' = fetches + 1
    /\ failedFetch' = TRUE
    /\ faultsLeft' = FaultsLeftAfter
    /\ attempt' = attempt + 1
    /\ attemptErrs' = Append(attemptErrs, error)
    /\ delays' = Append(delays, RetryDelay(attempt))
    /\ UNCHANGED <<chain, state, csv, opts, snap, pc, queue, typ, startBlock,
                   endBlock, currentStart, currentEnd, page, items, thrown,
                   visited, sunk, handed, state0, batchState0, prev, runs, storeVars, gateVars, extVars>>

\* the catch without its 'No transactions found' branch
CatchOfNoSentinel(error) ==
    IF error.etherscan /\ Includes(error.message, "Max rate limit reached")
    THEN "again"
    ELSE "throw"

\* What processBatchWithType's catch (lines 105-119) does with an error:
\* "next" (the window is over), "again" (continue: the same window), "throw".
CatchOf(error) ==
    IF error.etherscan
    THEN IF Includes(error.message, "No transactions found") THEN "next"
         ELSE IF Includes(error.message, "Max rate limit reached") THEN "again"
         ELSE "throw"
    ELSE "throw"

\* The provider reports 'No transactions found' only for a page without items.
Truthful(error) == error = ErrNoTransactions => FetchedPage = <<>>

\* lines 57, 105-108, 121: 'No transactions found' ends the window
FetchNoData(error) ==
    /\ pc = "fetch"
    /\ FaultAllowed
    /\ ~ShouldRetry(error, attempt)
    /\ Truthful(error)
    /\ CatchOf(RetryThrows(error, attempt)) = "next"
    /\ fetches' = fetches + 1
    /\ failedFetch' = TRUE
    /\ faultsLeft' = FaultsLeftAfter
    /\ attemptErrs' = Append(attemptErrs, error)
    /\ currentStart' = currentEnd + 1
    /\ pc' = "window"
    /\ UNCHANGED <<chain, state, csv, opts, snap, queue, typ, startBlock, endBlock,
                   currentEnd, page, attempt, items, thrown, visited, sunk,
                   handed, state0, batchState0, prev, runs, storeVars, gateVars, extVars, delays>>

\* lines 57, 109-112: a rate-limit error restarts the window (continue)
FetchRateLimited(error) ==
    /\ pc = "fetch"
    /\ FaultAllowed
    /\ ~ShouldRetry(error, attempt)
    /\ CatchOf(RetryThrows(error, attempt)) = "again"
    /\ fetches' = fetches + 1
    /\ failedFetch' = TRUE
    /\ faultsLeft' = FaultsLeftAfter
    /\ attemptErrs' = Append(attemptErrs, error)
    /\ pc' = "window"
    /\ UNCHANGED <<chain, state, csv, opts, snap, queue, typ, startBlock, endBlock,
                   currentStart, currentEnd, page, attempt, items, thrown,
                   visited, sunk, handed, state0, batchState0, prev, runs, storeVars, gateVars, extVars, delays>>

\* the abort that records the failing window as collected
FetchFatalCommitting(error) ==
    /\ pc = "fetch"
    /\ FaultAllowed
    /\ ~ShouldRetry(error, attempt)
    /\ CatchOf(RetryThrows(error, attempt)) = "throw"
    /\ fetches' = fetches + 1
    /\ failedFetch' = TRUE
    /\ faultsLeft' = FaultsLeftAfter
    /\ attemptErrs' = Append(attemptErrs, error)
    /\ thrown' = RetryThrows(error, attempt)
    /\ state' = [state EXCEPT !.transactionTypes[typ].lastBlock = Max(@, currentEnd)]
    /\ pc' = "failed"
    /\ UNCHANGED <<chain, csv, opts, snap, queue, typ, startBlock, endBlock,
                   currentStart, currentEnd, page, attempt, items, visited, sunk,
                   handed, state0, batchState0, prev, runs, storeVars, gateVars, extVars, delays>>

\* lines 57, 113-118, 224-227: any other error ends the run
FetchFatal(error) ==
    /\ pc = "fetch"
    /\ FaultAllowed
    /\ ~ShouldRetry(error, attempt)
    /\ CatchOf(RetryThrows(error, attempt)) = "throw"
    /\ fetches' = fetches + 1
    /\ failedFetch' = TRUE
    /\ faultsLeft' = FaultsLeftAfter
    /\ attemptErrs' = Append(attemptErrs, error)
    /\ thrown' = RetryThrows(error, attempt)
    /\ pc' = "failed"
    /\ UNCHANGED <<chain, state, csv, opts, snap, queue, typ, startBlock, endBlock,
                   currentStart, currentEnd, page, attempt, items, visited, sunk,
                   handed, state0, batchState0, prev, runs, storeVars, gateVars, extVars, delays>>

Hashes(batch) == {batch[i].hash : i \in 1..Len(batch)}

ThisSave == [type |-> typ, start |-> currentStart, end |-> currentEnd,
             page |-> page, items |-> items]

\* lines 94-104 with saveTransactions / saveTokenTransfers succeeding
SaveDone ==
    /\ pc = "save"
    /\ csv' = [csv EXCEPT ![typ] = @ \o RowsOfSave(typ, items)]
    /\ state' = StateAfterSave(state, typ, items)
    /\ sunk' = Append(sunk, ThisSave)
    /\ handed' = [handed EXCEPT ![typ] = @ \cup Hashes(items)]
    /\ IF ShortPage(items)
       THEN /\ currentStart' = currentEnd + 1
            /\ pc' = "window"
            /\ UNCHANGED <<page, attempt, attemptErrs, delays>>
       ELSE /\ page' = page + 1
            /\ attempt' = 1
            /\ attemptErrs' = <<>>
            /\ delays' = <<>>
            /\ pc' = "fetch"
            /\ UNCHANGED currentStart
    /\ items' = <<>>
    /\ UNCHANGED <<failedFetch, chain, opts, snap, queue, typ, startBlock, endBlock, currentEnd,
                   thrown, fetches, visited, state0, batchState0, prev, runs,
                   faultsLeft, storeVars, gateVars, extVars>>

\* the sink that updates state.json before it writes the rows
SaveFailedStateFirst(written) ==
    /\ pc = "save"
    /\ faultsLeft > 0
    /\ faultsLeft' = faultsLeft - 1
    /\ state' = StateAfterSave(state, typ, items)
    /\ csv' = IF written THEN [csv EXCEPT ![typ] = @ \o RowsOfSave(typ, items)] ELSE csv
    /\ sunk' = Append(sunk, ThisSave)
    /\ handed' = [handed EXCEPT ![typ] = @ \cup Hashes(items)]
    /\ thrown' = ErrStorage
    /\ pc' = "failed"
    /\ UNCHANGED <<failedFetch, chain, opts, snap, queue, typ, startBlock, endBlock,
                   currentStart, currentEnd, page, attempt, items, attemptErrs,
                   fetches, visited, state0, batchState0, prev, runs, storeVars, gateVars, extVars, delays>>

\* lines 94, 116-118 with the sink throwing a StorageError: either the rows
\* were not written, or they were and the state update failed.
SaveFailed(written) ==
    /\ pc = "save"
    /\ faultsLeft > 0
    /\ faultsLeft' = faultsLeft - 1
    /\ csv' = IF written THEN [csv EXCEPT ![typ] = @ \o RowsOfSave(typ, items)] ELSE csv
    /\ sunk' = Append(sunk, ThisSave)
    /\ handed' = [handed EXCEPT ![typ] = @ \cup Hashes(items)]
    /\ thrown' = ErrStorage
    /\ pc' = "failed"
    /\ UNCHANGED <<failedFetch, chain, state, opts, snap, queue, typ, startBlock, endBlock,
                   currentStart, currentEnd, page, attempt, items, attemptErrs,
                   fetches, visited, state0, batchState0, prev, runs, storeVars, gateVars, extVars, delays>>

Next ==
    \/ \E r \in BOOLEAN : AnalyzeOrganization(r)
    \/ EnterWindow
    \/ NextType
    \/ Complete
    \/ FetchEmpty
    \/ FetchItems
    \/ \E e \in ProviderErrors : FetchRetried(e)
    \/ \E e \in ProviderErrors : FetchNoData(e)
    \/ \E e \in ProviderErrors : FetchRateLimited(e)
    \/ \E e \in ProviderErrors : FetchFatal(e)
    \/ SaveDone
    \/ \E w \in BOOLEAN : SaveFailed(w)

Spec == Init /\ [][Next]_vars

\* One invocation of analyzeOrganization on an organization without state.
AnalyzeOnce(resume) ==
    /\ runs = 0
    /\ AnalyzeOrganization(resume)

RunNext ==
    \/ \E r \in BOOLEAN : AnalyzeOnce(r)
    \/ EnterWindow
    \/ NextType
    \/ Complete
    \/ FetchEmpty
    \/ FetchItems
    \/ \E e \in ProviderErrors : FetchRetried(e)
    \/ \E e \in ProviderErrors : FetchNoData(e)
    \/ \E e \in ProviderErrors : FetchRateLimited(e)
    \/ \E e \in ProviderErrors : FetchFatal(e)
    \/ SaveDone
    \/ \E w \in BOOLEAN : SaveFailed(w)

SpecRun == Init /\ [][RunNext]_vars

\* One call of processBatchWithType, for any data type, block range and data
\* set, on the state.json that saveOrganization has created.
InitBatch ==
    /\ typ \in Types
    /\ \E d \in Datasets : chain = [t \in Types |-> IF t = typ THEN d ELSE <<>>]
    /\ startBlock \in 0..MaxBlock
    /\ endBlock \in 1..MaxBlock
    /\ currentStart = startBlock
    /\ pc = "window"
    /\ opts = [startBlock |-> Omitted, endBlock |-> Omitted,
               includeInternalTransactions |-> FALSE,
               includeTokenTransfers |-> FALSE, resume |-> FALSE]
    /\ snap = NoState
    /\ queue = <<>>
    /\ state = InitialState /\ state0 = InitialState /\ batchState0 = InitialState
    /\ csv = [t \in Types |-> <<>>]
    /\ currentEnd = 0 /\ page = 1 /\ attempt = 1
    /\ items = <<>>
    /\ thrown = NoError
    /\ attemptErrs = <<>>
    /\ delays = <<>>
    /\ fetches = 0 /\ failedFetch = FALSE /\ visited = <<>> /\ sunk = <<>>
    /\ handed = [t \in Types |-> {}]
    /\ prev = [outcome |-> "none", resume |-> FALSE]
    /\ runs = 1
    /\ faultsLeft = MaxFaultsBatch
    /\ StoreIdle
    /\ GateIdle
    /\ ExtIdle

BatchNext ==
    \/ EnterWindow
    \/ Complete
    \/ FetchEmpty
    \/ FetchItems
    \/ \E e \in ProviderErrors : FetchRetried(e)
    \/ \E e \in ProviderErrors : FetchNoData(e)
    \/ \E e \in ProviderErrors : FetchRateLimited(e)
    \/ \E e \in ProviderErrors : FetchFatal(e)
    \/ SaveDone
    \/ \E w \in BOOLEAN : SaveFailed(w)

SpecBatch == InitBatch /\ [][BatchNext]_vars


\* ------------------------------------------------- FileSystemStorage alone
\* The storage called directly, in any order: saveOrganization,
\* saveTransactions, saveTokenTransfers, saveContractEvents.
DefaultOptions ==
    [startBlock |-> Omitted, endBlock |-> Omitted,
     includeInternalTransactions |-> FALSE,
     includeTokenTransfers |-> FALSE, resume |-> FALSE]

RunUnused ==
    /\ RunIdle
    /\ chain = [t \in Types |-> <<>>]
    /\ opts = DefaultOptions
    /\ faultsLeft = 0

\* The batches a caller may hand over: up to a page of items, in any order of
\* block number; the k-th item of the n-th call has hash n * page size + k.
BlockLists == UNION {[1..n -> 0..MaxBlock] : n \in 0..MAX_RECORDS_PER_CALL}
BatchOf(blocks) ==
    [i \in 1..Len(blocks) |->
        [blockNumber |-> blocks[i], hash |-> saves * MAX_RECORDS_PER_CALL + i]]

InitStore ==
    /\ state = NoState
    /\ csv = [t \in Types |-> <<>>]
    /\ RunUnused
    /\ StoreIdle
    /\ GateIdle
    /\ ExtIdle

\* lines 53-77
SaveOrganization ==
    /\ saves < MaxSaves
    /\ state' = initializeState(state)
    /\ saves' = saves + 1
    /\ lastSave' = [op |-> "saveOrganization", type |-> "none", batch |-> <<>>]
    /\ UNCHANGED <<chain, csv, runVars, gateVars, extVars, upd, tmp, eventsFile>>

\* the save without the test of lines 102 and 189
SaveBatchNoEmptyTest(type, batch) ==
    /\ saves < MaxSaves
    /\ csv' = [csv EXCEPT ![type] = @ \o RowsOfSave(type, batch)]
    /\ state' = IF batch = <<>> THEN initializeState(state) ELSE StateAfterSave(state, type, batch)
    /\ saves' = saves + 1
    /\ lastSave' = [op |-> "save", type |-> type, batch |-> batch]
    /\ UNCHANGED <<chain, runVars, gateVars, extVars, upd, tmp, eventsFile>>

\* lines 97-156 and 188-237; an empty batch returns at once
SaveBatch(type, batch) ==
    /\ saves < MaxSaves
    /\ IF batch = <<>>
       THEN UNCHANGED <<state, csv>>
       ELSE /\ csv' = [csv EXCEPT ![type] = @ \o RowsOfSave(type, batch)]
            /\ state' = StateAfterSave(state, type, batch)
    /\ saves' = saves + 1
    /\ lastSave' = [op |-> "save", type |-> type, batch |-> batch]
    /\ UNCHANGED <<chain, runVars, gateVars, extVars, upd, tmp, eventsFile>>

SaveTransactions(type, blocks) ==
    /\ type \in {"normal", "internal"}
    /\ SaveBatch(type, BatchOf(blocks))

SaveTokenTransfers(blocks) ==
    /\ "tokenTransfers" \in Types
    /\ SaveBatch("tokenTransfers", BatchOf(blocks))

\* lines 267-359: the events are merged into the event files in block order,
\* then updateEventState runs
SaveContractEvents(blocks) ==
    /\ saves < MaxSaves
    /\ IF blocks = <<>>
       THEN UNCHANGED <<state, eventsFile>>
       ELSE /\ eventsFile' = SortByBlock(eventsFile \o BatchOf(blocks))
            /\ state' = updateEventState(state, MaxOf(blocks), Len(blocks))
    /\ saves' = saves + 1
    /\ lastSave' = [op |-> "saveContractEvents", type |-> "events", batch |-> BatchOf(blocks)]
    /\ UNCHANGED <<chain, csv, runVars, gateVars, extVars, upd, tmp>>

StoreNext ==
    \/ SaveOrganization
    \/ \E t \in {"normal", "internal"}, b \in BlockLists : SaveTransactions(t, b)
    \/ \E b \in BlockLists : SaveTokenTransfers(b)
    \/ \E b \in BlockLists : SaveContractEvents(b)

SpecStore == InitStore /\ [][StoreNext]_vars

\* --------------------------------------------- interleaved state updates
\* Two saves of different data types whose state updates overlap. Each update
\* reads state.json (line 169 / 249), changes its copy, writes the copy to
\* state.json.tmp (line 382) and renames that to state.json (line 383).
Workers == {1, 2}

UpdatedCopy(u) ==
    IF u.type = "tokenTransfers"
    THEN updateTokenTransferState(u.local, u.lastBlock, u.count)
    ELSE updateTransactionState(u.local, u.type, u.lastBlock, u.count)

InitConc ==
    /\ state = InitialState
    /\ csv = [t \in Types |-> <<>>]
    /\ RunUnused
    /\ tmp = NoState
    /\ eventsFile = <<>>
    /\ saves = 0
    /\ lastSave = NoSave
    /\ GateIdle
    /\ ExtIdle
    /\ \E t \in {"normal", "internal"} :
       \E b1, b2 \in 0..MaxBlock :
       \E c1, c2 \in 1..MAX_RECORDS_PER_CALL :
          upd = <<[pc |-> "read", type |-> t, lastBlock |-> b1, count |-> c1,
                   local |-> NoState],
                  [pc |-> "read", type |-> "tokenTransfers", lastBlock |-> b2,
                   count |-> c2, local |-> NoState]>>

\* getLastProcessedState
UpdRead(w) ==
    /\ upd[w].pc = "read"
    /\ upd' = [upd EXCEPT ![w].local = state, ![w].pc = "writeTemp"]
    /\ UNCHANGED <<chain, state, csv, runVars, gateVars, extVars, tmp, eventsFile, saves, lastSave>>

\* writeJSONSafely: fs.writeJSON(tempPath, data)
UpdWriteTemp(w) ==
    /\ upd[w].pc = "writeTemp"
    /\ tmp' = UpdatedCopy(upd[w])
    /\ upd' = [upd EXCEPT ![w].pc = "rename"]
    /\ UNCHANGED <<chain, state, csv, runVars, gateVars, extVars, eventsFile, saves, lastSave>>

\* writeJSONSafely: fs.rename(tempPath, filePath)
UpdRename(w) ==
    /\ upd[w].pc = "rename"
    /\ tmp # NoState
    /\ state' = tmp
    /\ tmp' = NoState
    /\ upd' = [upd EXCEPT ![w].pc = "done"]
    /\ UNCHANGED <<chain, csv, runVars, gateVars, extVars, eventsFile, saves, lastSave>>

\* writeJSONSafely: the temporary file is gone (the other writer renamed it);
\* rename throws and the save ends with a StorageError
UpdRenameFails(w) ==
    /\ upd[w].pc = "rename"
    /\ tmp = NoState
    /\ upd' = [upd EXCEPT ![w].pc = "failed"]
    /\ UNCHANGED <<chain, state, csv, runVars, gateVars, extVars, tmp, eventsFile, saves, lastSave>>

ConcNext ==
    \E w \in Workers :
        \/ UpdRead(w)
        \/ UpdWriteTemp(w)
        \/ UpdRename(w)
        \/ UpdRenameFails(w)

SpecConc == InitConc /\ [][ConcNext]_vars

\* ------------------------------------------------------------ RateLimiter
\* schedule() and processQueue(), on a clock that ticks in units of
\* timeWindow / 4. A step runs the code from one await to the next.
IntervalOf(w, r) == w \div r

\* line 30: timeWindow / requestsPerSecond
MinInterval == IntervalOf(timeWindow, requestsPerSecond)

\* the wait with its sign turned round
TimeToWaitSigned(last, t) == Max(0, t - (last + MinInterval))

\* the wait of a whole timeWindow after every call
TimeToWaitWholeWindow(last, t) == Max(0, last + timeWindow - t)

\* line 30
TimeToWait(last, t) == Max(0, last + MinInterval - t)

\* line 19
StartsLoopAlways(p) == TRUE
StartsLoop(p) == ~p

\* The fields of the RateLimiter and the calls it has started, as one value.
Gate ==
    [queue |-> gateQueue, processing |-> processing, last |-> lastRequestTime,
     loops |-> loops, released |-> released, inFlight |-> inFlight]

SetGate(g) ==
    /\ gateQueue' = g.queue
    /\ processing' = g.processing
    /\ lastRequestTime' = g.last
    /\ loops' = g.loops
    /\ released' = g.released
    /\ inFlight' = g.inFlight

\* lines 36-38: the oldest call is taken off the queue and started by loop i
\* (with nothing queued, queue.shift() is undefined and the loop dies)
StartCall(g, i, t) ==
    IF g.queue = <<>>
    THEN [g EXCEPT !.loops[i] = [pc |-> "crashed", wakeAt |-> 0, call |-> 0]]
    ELSE [g EXCEPT !.queue = Tail(@),
                   !.last = t,
                   !.released = Append(@, <<Head(g.queue), t>>),
                   !.inFlight = @ \cup {Head(g.queue)},
                   !.loops[i] = [pc |-> "running", wakeAt |-> 0, call |-> Head(g.queue)]]

\* the loop that ends without clearing the processing flag
LoopTopKeepsFlag(g, i, t) ==
    IF g.queue = <<>>
    THEN [g EXCEPT !.loops[i] = [pc |-> "ended", wakeAt |-> 0, call |-> 0]]
    ELSE IF TimeToWait(g.last, t) > 0
    THEN [g EXCEPT !.loops[i] = [pc |-> "sleeping",
                                 wakeAt |-> t + TimeToWait(g.last, t),
                                 call |-> 0]]
    ELSE StartCall(g, i, t)

\* lines 28-38, 41: loop i from the top of its while loop to its next await
LoopTop(g, i, t) ==
    IF g.queue = <<>>
    THEN [g EXCEPT !.processing = FALSE,
                   !.loops[i] = [pc |-> "ended", wakeAt |-> 0, call |-> 0]]
    ELSE IF TimeToWait(g.last, t) > 0
    THEN [g EXCEPT !.loops[i] = [pc |-> "sleeping",
                                 wakeAt |-> t + TimeToWait(g.last, t),
                                 call |-> 0]]
    ELSE StartCall(g, i, t)

InitGate ==
    /\ state = NoState
    /\ csv = [t \in Types |-> <<>>]
    /\ RunUnused
    /\ StoreIdle
    /\ GateIdle
    /\ ExtIdle

\* The producers sharing the RateLimiter: the collections of two data types.
Producers == {"normal", "internal"}

\* lines 8-23 (and 26-38 when no loop is running): producer p's call is queued;
\* if processing is not set, processQueue starts and runs to its first await
Schedule(p) ==
    /\ scheduled < MaxCalls
    /\ scheduled' = scheduled + 1
    /\ owner' = Append(owner, p)
    /\ LET queued == [Gate EXCEPT !.queue = Append(@, scheduled + 1)]
           i == Len(loops) + 1
           started == [queued EXCEPT
                          !.processing = TRUE,
                          !.loops = Append(@, [pc |-> "top", wakeAt |-> 0, call |-> 0])]
       IN IF StartsLoop(processing)
          THEN SetGate(LoopTop(started, i, now))
          ELSE SetGate(queued)
    /\ UNCHANGED <<chain, state, csv, runVars, storeVars, extVars, now, outcomes>>

\* lines 33-38: the timer of loop i fires and the loop starts the oldest call
TimerFires(i) ==
    /\ i <= Len(loops)
    /\ loops[i].pc = "sleeping"
    /\ now >= loops[i].wakeAt
    /\ SetGate(StartCall(Gate, i, now))
    /\ UNCHANGED <<chain, state, csv, runVars, storeVars, extVars, now, scheduled, owner, outcomes>>

\* lines 9-17: the promise that the wrapper of call c settles; resolve and
\* reject are those of the closure that schedule() built for c
PromiseOfLatest(c) == scheduled
PromiseOf(c) == c

\* the wrapper without its catch: the function's error leaves the wrapper
WrapperThrowsOnError(ok) == ~ok

\* lines 11-16: the wrapper catches whatever the function throws, so the
\* `await fn()` of processQueue (line 38) never throws
WrapperThrows(ok) == FALSE

\* lines 12-15: the promise is resolved when the function returns, rejected
\* when it throws
WrapperResolves(ok) == ok

\* lines 12-15, 38, 28: the function of the call loop i awaits returns (ok) or
\* throws; the wrapper settles the caller's promise; the loop goes on (an error
\* leaving the wrapper would end processQueue with processing still set)
CallSettles(i, ok) ==
    /\ i <= Len(loops)
    /\ loops[i].pc = "running"
    /\ outcomes' = Append(outcomes, [promise |-> PromiseOf(loops[i].call),
                                     call |-> loops[i].call, ok |-> ok,
                                     resolved |-> WrapperResolves(ok)])
    /\ LET g == [Gate EXCEPT !.inFlight = @ \ {loops[i].call}]
       IN IF WrapperThrows(ok)
          THEN SetGate([g EXCEPT !.loops[i] = [pc |-> "crashed", wakeAt |-> 0, call |-> 0]])
          ELSE SetGate(LoopTop(g, i, now))
    /\ UNCHANGED <<chain, state, csv, runVars, storeVars, extVars, now, scheduled, owner>>

\* a timer is set for a time still to come
TimerPending == \E i \in 1..Len(loops) : loops[i].pc = "sleeping" /\ loops[i].wakeAt > now

\* time passes (beyond the last tick only up to a timer that is set)
Tick ==
    /\ now < StartTime + MaxTicks \/ TimerPending
    /\ now' = now + 1
    /\ UNCHANGED <<chain, state, csv, runVars, storeVars, extVars, gateQueue, processing,
                   lastRequestTime, loops, scheduled, released, inFlight,
                   owner, outcomes>>

GateNext ==
    \/ \E p \in Producers : Schedule(p)
    \/ \E i \in 1..MaxCalls : TimerFires(i)
    \/ \E i \in 1..MaxCalls, ok \in BOOLEAN : CallSettles(i, ok)
    \/ Tick

SpecGate == InitGate /\ [][GateNext]_vars

\* The same with time passing, every timer firing and every function that was
\* started settling in the end; schedule() may be called at any moment or never.
SpecGateLive ==
    /\ SpecGate
    /\ WF_vars(Tick)
    /\ WF_vars(\E i \in 1..MaxCalls : TimerFires(i))
    /\ WF_vars(\E i \in 1..MaxCalls, ok \in BOOLEAN : CallSettles(i, ok))

\* -------------------------------------------------------- EtherscanClient
\* throttleRequest() and makeRequest(), for calls that may overlap. A step runs
\* the code from one await to the next.
Replies == {"ok", "noTransactions", "rateLimit", "NOTOK", "apiError",
            "ECONNRESET", "ETIMEDOUT", "httpError", "malformed"}

\* lines 93-112 and 113-145: what one HTTP attempt ends in
ReplyClass(r) ==
    CASE r = "ok" -> "return"
      [] r = "noTransactions" -> "return"
      [] r \in {"rateLimit", "NOTOK"} -> "rateLimited"
      [] r \in {"ECONNRESET", "ETIMEDOUT"} -> "connection"
      [] OTHER -> "throw"

\* lines 109, 133-137, 144: the error makeRequest ends with
ErrorOfReply(r) ==
    CASE r \in {"rateLimit", "NOTOK", "apiError"} -> [etherscan |-> TRUE, message |-> r]
      [] r \in {"ECONNRESET", "ETIMEDOUT", "httpError"} ->
            [etherscan |-> TRUE, message |-> "Network error"]
      [] OTHER -> [etherscan |-> TRUE, message |-> "Failed to fetch data from Etherscan"]

\* lines 102, 118: INITIAL_RETRY_DELAY * Math.pow(2, retryCount)
BackoffLinear(initial, retryCount) == initial * (retryCount + 1)
BackoffOf(initial, retryCount) == initial * (2 ^ retryCount)

Client == [last |-> clientLast, reqs |-> reqs, sent |-> sent]

SetClient(c) ==
    /\ clientLast' = c.last
    /\ reqs' = c.reqs
    /\ sent' = c.sent

\* lines 77, 83-91: lastRequestTime is set and the HTTP request goes out
SendRequest(c, i, t) ==
    [c EXCEPT !.last = t,
              !.sent = Append(@, <<i, t>>),
              !.reqs[i].pc = "sent",
              !.reqs[i].sends = @ + 1]

\* lines 68-77: throttleRequest of call i, up to its await (if it has one)
EnterThrottle(c, i, t) ==
    LET timeSinceLastRequest == t - c.last IN
    IF timeSinceLastRequest < MIN_REQUEST_INTERVAL
    THEN [c EXCEPT !.reqs[i].pc = "throttled",
                   !.reqs[i].wakeAt = t + (MIN_REQUEST_INTERVAL - timeSinceLastRequest)]
    ELSE SendRequest(c, i, t)

InitClient ==
    /\ state = NoState
    /\ csv = [t \in Types |-> <<>>]
    /\ RunUnused
    /\ StoreIdle
    /\ GateIdle
    /\ ExtIdle

\* line 80: a caller calls makeRequest (retryCount = 0)
MakeRequest ==
    /\ Len(reqs) < MaxRequests
    /\ LET i == Len(reqs) + 1
           c == [Client EXCEPT !.reqs = Append(@, [pc |-> "new", retryCount |-> 0,
                                                   wakeAt |-> 0, sends |-> 0,
                                                   waits |-> <<>>, causes |-> <<>>,
                                                   error |-> NoError])]
       IN SetClient(EnterThrottle(c, i, clientNow))
    /\ UNCHANGED <<clientNow,
                 chain, state, csv, runVars, storeVars, gateVars, provVars, daoVars, fileVars>>

\* lines 72-77: the timer of throttleRequest fires
ThrottleDone(i) ==
    /\ i <= Len(reqs)
    /\ reqs[i].pc = "throttled"
    /\ clientNow >= reqs[i].wakeAt
    /\ SetClient(SendRequest(Client, i, clientNow))
    /\ UNCHANGED <<clientNow,
                 chain, state, csv, runVars, storeVars, gateVars, provVars, daoVars, fileVars>>

RECURSIVE BackoffsOf(_)
BackoffsOf(rs) == IF rs = <<>> THEN 0 ELSE Len(Head(rs).waits) + BackoffsOf(Tail(rs))

\* lines 86-145: the HTTP attempt of call i ends with reply r
Reply(i, r) ==
    /\ i <= Len(reqs)
    /\ reqs[i].pc = "sent"
    /\ \/ ReplyClass(r) \notin {"rateLimited", "connection"}
       \/ reqs[i].retryCount >= CLIENT_MAX_RETRIES
       \/ BackoffsOf(reqs) < MaxBackoffs
    /\ LET class == ReplyClass(r)
           retry == class \in {"rateLimited", "connection"} /\ reqs[i].retryCount < CLIENT_MAX_RETRIES
           delay == BackoffOf(INITIAL_RETRY_DELAY, reqs[i].retryCount)
       IN reqs' =
            IF class = "return" THEN [reqs EXCEPT ![i].pc = "returned"]
            ELSE IF retry
            THEN [reqs EXCEPT ![i].pc = "backoff",
                              ![i].wakeAt = clientNow + delay,
                              ![i].waits = Append(@, delay),
                              ![i].causes = Append(@, class)]
            ELSE [reqs EXCEPT ![i].pc = "threw", ![i].error = ErrorOfReply(r)]
    /\ UNCHANGED <<clientNow, clientLast, sent,
                 chain, state, csv, runVars, storeVars, gateVars, provVars, daoVars, fileVars>>

\* lines 104-105, 120-121: the backoff is over; makeRequest calls itself with
\* retryCount + 1 and starts with throttleRequest
BackoffDone(i) ==
    /\ i <= Len(reqs)
    /\ reqs[i].pc = "backoff"
    /\ clientNow >= reqs[i].wakeAt
    /\ SetClient(EnterThrottle([Client EXCEPT !.reqs[i].retryCount = @ + 1], i, clientNow))
    /\ UNCHANGED <<clientNow,
                 chain, state, csv, runVars, storeVars, gateVars, provVars, daoVars, fileVars>>

\* time passes (beyond the last tick only up to a timer that is set)
ClientTick ==
    /\ \/ clientNow < StartTime + MaxClientTicks
       \/ \E i \in 1..Len(reqs) :
              reqs[i].pc \in {"throttled", "backoff"} /\ reqs[i].wakeAt > clientNow
    /\ clientNow' = clientNow + 1
    /\ UNCHANGED <<clientLast, reqs, sent,
                 chain, state, csv, runVars, storeVars, gateVars, provVars, daoVars, fileVars>>

ClientNext ==
    \/ MakeRequest
    \/ \E i \in 1..MaxRequests : ThrottleDone(i)
    \/ \E i \in 1..MaxRequests, r \in Replies : Reply(i, r)
    \/ \E i \in 1..MaxRequests : BackoffDone(i)
    \/ ClientTick

SpecClient == InitClient /\ [][ClientNext]_vars

\* The same with time passing, timers firing and every HTTP attempt ending
\* (axios is given a timeout of 60 s, line 39).
SpecClientLive ==
    /\ SpecClient
    /\ WF_vars(ClientTick)
    /\ WF_vars(\E i \in 1..MaxRequests : ThrottleDone(i))
    /\ WF_vars(\E i \in 1..MaxRequests, r \in Replies : Reply(i, r))
    /\ WF_vars(\E i \in 1..MaxRequests : BackoffDone(i))

\* ----------------------------------------------------------- BaseProvider
\* withRetry() and handleRateLimit(), for calls made one after the other.
Messages == {"timeout", "bad gateway"}

\* line 59
GivesUpEarly(retryCount) == retryCount + 1 >= maxRetries
GivesUp(retryCount) == retryCount >= maxRetries

\* line 64: Math.pow(2, retryCount) * 1000
RetryDelayOf(unit, retryCount) == (2 ^ retryCount) * unit

\* lines 91-96
createError(message) == [name |-> "ProviderError", message |-> message]

\* lines 72-77: how long handleRateLimit waits at time t
RateLimitWait(t) ==
    LET timeSinceLastRequest == t - providerLastRequestTime IN
    IF timeSinceLastRequest < rateLimitDelay
    THEN rateLimitDelay - timeSinceLastRequest
    ELSE 0

\* lines 50-56: a caller calls withRetry (retryCount = 0); handleRateLimit runs
WithRetry ==
    /\ provCall = NoCall
    /\ Len(provLog) < MaxOps
    /\ provCall' = [pc |-> "rateLimit", retryCount |-> 0,
                    wakeAt |-> provNow + RateLimitWait(provNow),
                    starts |-> <<>>, thrown |-> <<>>, waits |-> <<>>]
    /\ UNCHANGED <<provNow, provStarted, provLog,
                 chain, state, csv, runVars, storeVars, gateVars, clientVars, daoVars, fileVars>>

\* line 57: handleRateLimit is over and operation() is invoked
OperationStarts ==
    /\ provCall # NoCall
    /\ provCall.pc = "rateLimit"
    /\ provNow >= provCall.wakeAt
    /\ provCall' = [provCall EXCEPT !.pc = "running", !.starts = Append(@, provNow)]
    /\ provStarted' = Append(provStarted, provNow)
    /\ UNCHANGED <<provNow, provLog,
                 chain, state, csv, runVars, storeVars, gateVars, clientVars, daoVars, fileVars>>

\* line 57: operation() resolves and withRetry returns its result
OperationReturns ==
    /\ provCall # NoCall
    /\ provCall.pc = "running"
    /\ provLog' = Append(provLog, [result |-> "returned", error |-> NoError,
                                   starts |-> provCall.starts, thrown |-> provCall.thrown,
                                   waits |-> provCall.waits, endedAt |-> provNow])
    /\ provCall' = NoCall
    /\ UNCHANGED <<provNow, provStarted,
                 chain, state, csv, runVars, storeVars, gateVars, clientVars, daoVars, fileVars>>

\* lines 58-66: operation() rejects with an Error carrying message m
OperationThrows(m) ==
    /\ provCall # NoCall
    /\ provCall.pc = "running"
    /\ LET errors == Append(provCall.thrown, [message |-> m, at |-> provNow])
           delay == RetryDelayOf(RETRY_UNIT, provCall.retryCount)
       IN IF GivesUp(provCall.retryCount)
          THEN /\ provLog' = Append(provLog, [result |-> "threw", error |-> createError(m),
                                              starts |-> provCall.starts, thrown |-> errors,
                                              waits |-> provCall.waits, endedAt |-> provNow])
               /\ provCall' = NoCall
          ELSE /\ provCall' = [provCall EXCEPT !.pc = "backoff",
                                               !.wakeAt = provNow + delay,
                                               !.thrown = errors,
                                               !.waits = Append(@, delay)]
               /\ UNCHANGED provLog
    /\ UNCHANGED <<provNow, provStarted,
                 chain, state, csv, runVars, storeVars, gateVars, clientVars, daoVars, fileVars>>

\* lines 66-67, 56: the delay is over; withRetry calls itself with
\* retryCount + 1 and handleRateLimit runs
RetryStarts ==
    /\ provCall # NoCall
    /\ provCall.pc = "backoff"
    /\ provNow >= provCall.wakeAt
    /\ provCall' = [provCall EXCEPT !.pc = "rateLimit",
                                    !.retryCount = @ + 1,
                                    !.wakeAt = provNow + RateLimitWait(provNow)]
    /\ UNCHANGED <<provNow, provStarted, provLog,
                 chain, state, csv, runVars, storeVars, gateVars, clientVars, daoVars, fileVars>>

ProviderTick ==
    /\ \/ provNow < StartTime + MaxProvTicks
       \/ /\ provCall # NoCall
          /\ provCall.pc \in {"rateLimit", "backoff"}
          /\ provCall.wakeAt > provNow
    /\ provNow' = provNow + 1
    /\ UNCHANGED <<provCall, provStarted, provLog,
                 chain, state, csv, runVars, storeVars, gateVars, clientVars, daoVars, fileVars>>

ProviderNext ==
    \/ WithRetry
    \/ OperationStarts
    \/ OperationReturns
    \/ \E m \in Messages : OperationThrows(m)
    \/ RetryStarts
    \/ ProviderTick

SpecProvider == InitClient /\ [][ProviderNext]_vars

\* -------------------------------------------------------- DAOEventStorage
\* saveProposalEvents() and saveVoteEvents(): the file is read, the batch is
\* merged into it and the result is written back as JSON.
\* A proposalId is declared as an ethers BigNumber (dao-events.ts:14, 26); the
\* providers of this repository also hand out decimal strings
\* (daoUtils.ts:52), and ethers 6, the version of package.json, decodes a
\* uint256 to a bigint. An id is [kind, n]: the kind in memory (string,
\* BigNumber or bigint; object once parsed back from JSON) and the number.

\* proposalId.toString(): the decimal digits, or Object.prototype.toString for
\* the plain object a BigNumber is parsed back to
toString(id) ==
    IF id.kind = "object" THEN "[object Object]"
    ELSE IF id.n = 1 THEN "1" ELSE IF id.n = 2 THEN "2" ELSE "3"

\* JSON.parse(JSON.stringify(id)): a string stays a string, a BigNumber
\* becomes the plain object {type, hex}; a bigint cannot be serialised
JSONOfId(id) == IF id.kind = "BigNumber" THEN [kind |-> "object", n |-> id.n] ELSE id
JSONOf(list) == [i \in 1..Len(list) |-> [list[i] EXCEPT !.proposalId = JSONOfId(@)]]

\* lines 146, 150 and 167, 171
KeyOf(file, e) ==
    IF file = "proposals"
    THEN <<toString(e.proposalId)>>
    ELSE <<toString(e.proposalId), "-", e.voter>>

\* Map: the entries <<key, value>> in insertion order
MapHas(m, k) == \E i \in 1..Len(m) : m[i][1] = k
MapGet(m, k) == m[CHOOSE i \in 1..Len(m) : m[i][1] = k][2]
MapSet(m, k, v) ==
    IF MapHas(m, k)
    THEN [i \in 1..Len(m) |-> IF m[i][1] = k THEN <<k, v>> ELSE m[i]]
    ELSE Append(m, <<k, v>>)
\* Array.from(map.values())
MapValues(m) == [i \in 1..Len(m) |-> m[i][2]]

\* lines 145-147: new Map(existing.map(p => [key, p]))
RECURSIVE MapOf(_, _, _)
MapOf(m, list, file) ==
    IF list = <<>> THEN m
    ELSE MapOf(MapSet(m, KeyOf(file, Head(list)), Head(list)), Tail(list), file)

\* lines 152-153: an entry replaces the one stored when its block is greater
Replaces(stored, new) == stored.blockNumber < new.blockNumber

\* lines 149-155: the loop over the new events
RECURSIVE MergeInto(_, _, _)
MergeInto(m, list, file) ==
    IF list = <<>> THEN m
    ELSE LET e == Head(list)
             k == KeyOf(file, e)
         IN MergeInto(IF ~MapHas(m, k) \/ Replaces(MapGet(m, k), e)
                      THEN MapSet(m, k, e) ELSE m,
                      Tail(list), file)

\* lines 141-160
mergeProposalEvents(existing, newProposals) ==
    SortByBlock(MapValues(MergeInto(MapOf(<<>>, existing, "proposals"), newProposals, "proposals")))

\* lines 162-181
mergeVoteEvents(existing, newVotes) ==
    SortByBlock(MapValues(MergeInto(MapOf(<<>>, existing, "votes"), newVotes, "votes")))

\* lines 51-58, 76: readJSON(path) || []
ReadList(file) == IF file = NoFile THEN <<>> ELSE file.content

\* lines 35-49: JSON.stringify throws on a bigint and nothing is written
CanWrite(list) == \A i \in 1..Len(list) : list[i].proposalId.kind # "bigint"

\* The batches a caller may hand over: up to two events, ids of one kind; the
\* transaction hash of an event is its position in the batch.
ProposalBatches(kind) ==
    UNION {{[i \in 1..n |-> [proposalId |-> [kind |-> kind, n |-> ids[i]],
                             blockNumber |-> blocks[i],
                             transactionHash |-> <<"a", "b">>[i]]] :
               ids \in [1..n -> 1..MaxId], blocks \in [1..n -> 1..MaxDaoBlock]} : n \in 0..2}
VoteBatches(kind) ==
    UNION {{[i \in 1..n |-> [proposalId |-> [kind |-> kind, n |-> ids[i]],
                             voter |-> voters[i],
                             blockNumber |-> blocks[i],
                             transactionHash |-> <<"a", "b">>[i]]] :
               ids \in [1..n -> 1..MaxId], voters \in [1..n -> {"x", "y"}],
               blocks \in [1..n -> 1..MaxDaoBlock]} : n \in 0..2}

\* lines 67-84
SaveProposalEvents(proposals) ==
    /\ daoSaves < MaxDaoSaves
    /\ LET updatedProposals == mergeProposalEvents(ReadList(proposalsFile), proposals)
       IN IF CanWrite(updatedProposals)
          THEN /\ proposalsFile' = FileOf(JSONOf(updatedProposals))
               /\ daoLast' = [file |-> "proposals", batch |-> proposals, error |-> NoError]
          ELSE /\ UNCHANGED proposalsFile
               /\ daoLast' = [file |-> "proposals", batch |-> proposals, error |-> ErrStorage]
    /\ daoSaves' = daoSaves + 1
    /\ UNCHANGED <<votesFile,
                 chain, state, csv, runVars, storeVars, gateVars, clientVars, provVars, fileVars>>

\* lines 86-103
SaveVoteEvents(votes) ==
    /\ daoSaves < MaxDaoSaves
    /\ LET updatedVotes == mergeVoteEvents(ReadList(votesFile), votes)
       IN IF CanWrite(updatedVotes)
          THEN /\ votesFile' = FileOf(JSONOf(updatedVotes))
               /\ daoLast' = [file |-> "votes", batch |-> votes, error |-> NoError]
          ELSE /\ UNCHANGED votesFile
               /\ daoLast' = [file |-> "votes", batch |-> votes, error |-> ErrStorage]
    /\ daoSaves' = daoSaves + 1
    /\ UNCHANGED <<proposalsFile,
                 chain, state, csv, runVars, storeVars, gateVars, clientVars, provVars, fileVars>>

DaoNext ==
    \/ \E kind \in {"string", "BigNumber", "bigint"} : \E b \in ProposalBatches(kind) : SaveProposalEvents(b)
    \/ \E kind \in {"string", "BigNumber", "bigint"} : \E b \in VoteBatches(kind) : SaveVoteEvents(b)

SpecDao == InitClient /\ [][DaoNext]_vars

\* ------------------------------------------------------- writeJSONSafely
\* FileSystemStorage.writeJSONSafely for one writer, one file-system call per
\* step. At most one file-system call of a writeJSONSafely call fails; a call
\* that fails while writing may leave a partial file behind.

\* lines 388-390: the temporary file is removed if it exists
RemoveNever(f) == f
RemoveIfExists(f) == NoFile

\* line 29: createBackups is an option of the constructor
InitFile ==
    /\ state = NoState
    /\ csv = [t \in Types |-> <<>>]
    /\ RunUnused
    /\ StoreIdle
    /\ GateIdle
    /\ clientNow = StartTime /\ clientLast = 0 /\ reqs = <<>> /\ sent = <<>>
    /\ provNow = StartTime /\ provCall = NoCall /\ provStarted = <<>> /\ provLog = <<>>
    /\ proposalsFile = NoFile /\ votesFile = NoFile /\ daoSaves = 0 /\ daoLast = NoCall
    /\ fileTarget = NoFile
    /\ fileTemp = NoFile
    /\ fileBackup = NoFile
    /\ fileCall \in {[pc |-> "none", createBackups |-> b] : b \in BOOLEAN}
    /\ fileWrites = 0

\* lines 373-378: a call begins; the backup is made only when createBackups is
\* set and the target exists
WriteJSONSafely(data) ==
    /\ fileCall.pc \in {"none", "returned", "threw"}
    /\ fileWrites < MaxFileWrites
    /\ fileWrites' = fileWrites + 1
    /\ fileCall' = [pc |-> IF fileCall.createBackups /\ fileTarget # NoFile
                           THEN "copy" ELSE "writeTemp",
                    createBackups |-> fileCall.createBackups,
                    data |-> data, before |-> fileTarget,
                    failedAt |-> "none", error |-> NoError]
    /\ UNCHANGED <<fileTarget, fileTemp, fileBackup,
                 chain, state, csv, runVars, storeVars, gateVars, clientVars, provVars, daoVars>>

\* line 379: fs.copy(filePath, backupPath)
CopyToBackup(ok) ==
    /\ fileCall.pc = "copy"
    /\ IF ok
       THEN /\ fileBackup' = fileTarget
            /\ fileCall' = [fileCall EXCEPT !.pc = "writeTemp"]
       ELSE /\ fileBackup' \in {NoFile, FileOf("partial")}
            /\ fileCall' = [fileCall EXCEPT !.pc = "catch", !.failedAt = "copy"]
    /\ UNCHANGED <<fileTarget, fileTemp, fileWrites,
                 chain, state, csv, runVars, storeVars, gateVars, clientVars, provVars, daoVars>>

\* line 382: fs.writeJSON(tempPath, data)
WriteTemp(ok) ==
    /\ fileCall.pc = "writeTemp"
    /\ IF ok
       THEN /\ fileTemp' = FileOf(fileCall.data)
            /\ fileCall' = [fileCall EXCEPT !.pc = "rename"]
       ELSE /\ fileTemp' \in {NoFile, FileOf("partial")}
            /\ fileCall' = [fileCall EXCEPT !.pc = "catch", !.failedAt = "writeTemp"]
    /\ UNCHANGED <<fileTarget, fileBackup, fileWrites,
                 chain, state, csv, runVars, storeVars, gateVars, clientVars, provVars, daoVars>>

\* lines 383-385: fs.rename(tempPath, filePath)
RenameTemp(ok) ==
    /\ fileCall.pc = "rename"
    /\ IF ok
       THEN /\ fileTarget' = fileTemp
            /\ fileTemp' = NoFile
            /\ fileCall' = [fileCall EXCEPT
                               !.pc = IF fileCall.createBackups /\ fileBackup # NoFile
                                      THEN "removeBackup" ELSE "returned"]
       ELSE /\ UNCHANGED <<fileTarget, fileTemp>>
            /\ fileCall' = [fileCall EXCEPT !.pc = "catch", !.failedAt = "rename"]
    /\ UNCHANGED <<fileBackup, fileWrites,
                 chain, state, csv, runVars, storeVars, gateVars, clientVars, provVars, daoVars>>

\* line 386: fs.remove(backupPath)
RemoveBackup(ok) ==
    /\ fileCall.pc = "removeBackup"
    /\ IF ok
       THEN /\ fileBackup' = NoFile
            /\ fileCall' = [fileCall EXCEPT !.pc = "returned"]
       ELSE /\ UNCHANGED fileBackup
            /\ fileCall' = [fileCall EXCEPT !.pc = "catch", !.failedAt = "removeBackup"]
    /\ UNCHANGED <<fileTarget, fileTemp, fileWrites,
                 chain, state, csv, runVars, storeVars, gateVars, clientVars, provVars, daoVars>>

\* lines 387-395: the catch block
CatchWrite ==
    /\ fileCall.pc = "catch"
    /\ fileTemp' = IF fileTemp # NoFile THEN RemoveIfExists(fileTemp) ELSE fileTemp
    /\ IF fileCall.createBackups /\ fileBackup # NoFile
       THEN /\ fileTarget' = fileBackup
            /\ fileBackup' = NoFile
       ELSE UNCHANGED <<fileTarget, fileBackup>>
    /\ fileCall' = [fileCall EXCEPT !.pc = "threw", !.error = ErrStorage]
    /\ UNCHANGED <<fileWrites,
                 chain, state, csv, runVars, storeVars, gateVars, clientVars, provVars, daoVars>>

FileNext ==
    \/ \E data \in {"d1", "d2"} : WriteJSONSafely(data)
    \/ \E ok \in BOOLEAN : CopyToBackup(ok)
    \/ \E ok \in BOOLEAN : WriteTemp(ok)
    \/ \E ok \in BOOLEAN : RenameTemp(ok)
    \/ \E ok \in BOOLEAN : RemoveBackup(ok)
    \/ CatchWrite

SpecFile == InitFile /\ [][FileNext]_vars

\* ------------------------------------------------------------------ claims
LastBlock(st, t) == st.transactionTypes[t].lastBlock
Count(st, t) == st.transactionTypes[t].count

\* the current batch has left its while loop
BatchOver == pc = "done" \/ (pc = "window" /\ ~LoopCondition(currentStart, endBlock))

NoDuplicates(s) == \A i, j \in 1..Len(s) : i # j => s[i] # s[j]

\* C1: while a window is being collected, and after a failure inside it, the
\* persisted cursor of the type is the end of the previous window or its value
\* from before the batch, never a block the window's pages brought in.
C1_CursorOnlyAtWindowEnd ==
    pc \in {"fetch", "save", "failed"} =>
        LastBlock(state, typ) \in
            {LastBlock(batchState0, typ)}
            \cup (IF currentStart > startBlock THEN {currentStart - 1} ELSE {})

\* C2: a run that was aborted, followed by a completed run with resume = true
\* on the same range, has handed every item of the range to the sink.
C2_NoLossOnResume ==
    (pc = "done" /\ prev.outcome = "failed" /\ opts.resume) =>
        \A t \in Range(TypesOf(opts)) : \A i \in 1..Len(chain[t]) :
            (chain[t][i] >= OrElse(opts.startBlock, 0) /\ chain[t][i] <= endBlock)
                => i \in handed[t]

\* C3: within one batch no (window, page) pair and no item is handed to the
\* sink twice, and the count of the type never exceeds the number of distinct
\* items handed over.
C3_NoDuplication ==
    /\ NoDuplicates([i \in 1..Len(sunk) |-> <<sunk[i].type, sunk[i].start, sunk[i].page>>])
    /\ NoDuplicates(csv[typ])
    /\ Count(state, typ) - Count(batchState0, typ) <= Cardinality(handed[typ])

\* C4: a run with resume = true after a completed run on the same range
\* makes no provider call and leaves state.json as it found it.
C4_IdempotentResume ==
    (prev.outcome = "done" /\ opts.resume /\ pc # "idle") =>
        fetches = 0 /\ state = state0

\* The windows the loop of lines 73-122 visits when no fetch fails.
RECURSIVE Windows(_, _, _)
Windows(cs, eb, w) ==
    IF ~LoopCondition(cs, eb) THEN <<>>
    ELSE <<<<cs, WindowEndW(cs, eb, w)>>>> \o Windows(WindowEndW(cs, eb, w) + 1, eb, w)

\* C5: when no fetch fails the windows visited are ascending, each non-empty
\* and at most BLOCK_RANGE long, consecutive ones adjacent, the first at
\* startBlock and, once the batch is over, the last at endBlock; and
\* 100..260000 in windows of 50000 gives the six windows of the scenario.
C5_WindowCoverage ==
    /\ ~failedFetch =>
        /\ \A i \in 1..Len(visited) :
              /\ visited[i][1] <= visited[i][2]
              /\ visited[i][2] - visited[i][1] + 1 <= BLOCK_RANGE
        /\ visited # <<>> => visited[1][1] = startBlock
        /\ \A i \in 1..(Len(visited) - 1) : visited[i + 1][1] = visited[i][2] + 1
        /\ (BatchOver /\ startBlock <= endBlock) =>
              /\ visited # <<>>
              /\ visited[Len(visited)][2] = endBlock
              /\ visited = Windows(startBlock, endBlock, BLOCK_RANGE)
    /\ Windows(100, 260000, 50000) =
          << <<100, 50099>>, <<50100, 100099>>, <<100100, 150099>>,
             <<150100, 200099>>, <<200100, 250099>>, <<250100, 260000>> >>

C5_Witness ==
    /\ BatchOver /\ ~failedFetch
    /\ Len(visited) >= 2
    /\ startBlock > 0
    /\ visited[Len(visited)][2] - visited[Len(visited)][1] + 1 < BLOCK_RANGE

\* C6: a batch whose start is beyond endBlock visits no window, calls neither
\* the provider nor the sink, raises nothing and leaves state.json alone.
C6_EmptyRange ==
    startBlock > endBlock =>
        /\ pc \in {"window", "done"}
        /\ visited = <<>>
        /\ fetches = 0
        /\ sunk = <<>>
        /\ thrown = NoError
        /\ state = batchState0
        /\ csv[typ] = <<>>

C6_Witness == pc = "done" /\ startBlock > endBlock

\* What the claim expects retryOperation to raise once the attempts are used up.
Exhaustion(last) ==
    [etherscan |-> FALSE, message |-> ErrExhausted.message, cause |-> last]

Transient(error) == error = ErrTimeout \/ error = ErrGeneric

\* C10: when every attempt of an operation fails with a transient error, the
\* operation is invoked exactly MAX_RETRIES times and the failure raised is the
\* exhaustion condition carrying the last error.
C10_BoundedRetries ==
    (/\ pc = "failed"
     /\ thrown # ErrStorage
     /\ \A i \in 1..Len(attemptErrs) : Transient(attemptErrs[i])) =>
        /\ Len(attemptErrs) = MAX_RETRIES
        /\ thrown = Exhaustion(attemptErrs[Len(attemptErrs)])

\* C7: over any sequence of saves no cursor ever decreases, and a save of a
\* non-empty batch sets the cursor of its type to the greater of the cursor
\* and the highest block number of the batch.
C7_MonotonicCursor ==
    [][/\ state # NoState =>
            /\ state' # NoState
            /\ \A t \in Types : LastBlock(state', t) >= LastBlock(state, t)
       /\ (saves' # saves /\ lastSave'.op = "save" /\ lastSave'.batch # <<>>) =>
            LastBlock(state', lastSave'.type) =
                Max(LastBlock(initializeState(state), lastSave'.type),
                    MaxOf(BlockNumbers(lastSave'.batch)))]_vars

C7_Witness ==
    /\ lastSave.op = "save"
    /\ lastSave.batch # <<>>
    /\ MaxOf(BlockNumbers(lastSave.batch)) < LastBlock(state, lastSave.type)

\* C8: lastProcessedBlock is the greatest lastBlock of the cursors of
\* normal, internal, tokenTransfers and events.
C8_LastProcessedIsMax ==
    state # NoState =>
        state.lastProcessedBlock =
            Max(Max(LastBlock(state, "normal"), LastBlock(state, "internal")),
                Max(LastBlock(state, "tokenTransfers"), state.events.lastBlock))

\* C9: when two state updates of different data types have both completed,
\* state.json holds what running them one after the other leaves.
C9_NoLostUpdate ==
    (\A w \in Workers : upd[w].pc = "done") =>
        state = UpdatedCopy([upd[2] EXCEPT !.local =
                    UpdatedCopy([upd[1] EXCEPT !.local = InitialState])])

\* C11: when every attempt of a page fetch is answered with 'Max rate limit
\* reached', the attempts stop at the retry budget and collection of the window
\* ends with that error; the window is not collected again.
C11_RateLimitBounded ==
    (/\ Len(attemptErrs) = MAX_RETRIES
     /\ \A i \in 1..Len(attemptErrs) : attemptErrs[i] = ErrRateLimit) =>
        /\ pc = "failed"
        /\ thrown = ErrRateLimit

\* C12: an EtherscanError that is neither the not-found sentinel, a rate-limit
\* signal nor a network failure is retried on every attempt but the last: it
\* reaches the caller only when MAX_RETRIES attempts have been made.
C12_OtherErrorRetried ==
    (pc = "failed" /\ thrown = ErrOther) => Len(attemptErrs) = MAX_RETRIES

\* The provider answers the pending fetch with 'no data in range': an empty
\* result, or an EtherscanError 'No transactions found'.
NotFoundAnswer ==
    /\ pc = "fetch"
    /\ fetches' = fetches + 1
    /\ \/ attemptErrs' = Append(attemptErrs, ErrNoTransactions)
       \/ attemptErrs' = attemptErrs /\ FetchedPage = <<>>

\* C13: a 'no data in range' answer is a fetch of zero items: it is not retried,
\* raises nothing, saves nothing and ends the pagination of the window;
\* collection goes on after the window's end.
C13_NotFoundIsEmpty ==
    [][NotFoundAnswer =>
          /\ pc' = "window"
          /\ currentStart' = currentEnd + 1
          /\ attempt' = attempt
          /\ delays' = delays
          /\ thrown' = NoError
          /\ state' = state /\ csv' = csv /\ sunk' = sunk]_vars

C13_Witness ==
    /\ pc = "window"
    /\ attemptErrs # <<>>
    /\ attemptErrs[Len(attemptErrs)] = ErrNoTransactions
    /\ LoopCondition(currentStart, endBlock)

RECURSIVE Pow2(_)
Pow2(k) == IF k = 0 THEN 1 ELSE 2 * Pow2(k - 1)

\* C14: the wait of a retryOperation call after its failed attempt k is
\* RETRY_DELAY * 2^k, exponential in the attempt counter.
C14_ExponentialBackoff ==
    \A k \in 1..Len(delays) : delays[k] = RETRY_DELAY * Pow2(k)

\* C15: a page with fewer items than the page size, or with none, is the last
\* page requested for its window: its items (if any) are saved, no provider
\* call is made for the window afterwards, and collection moves past the
\* window's end.
C15_ShortPageEndsWindow ==
    /\ [](pc = "fetch" =>
            \A i \in 1..Len(sunk) :
                (sunk[i].type = typ /\ Len(sunk[i].items) < MAX_RECORDS_PER_CALL)
                    => sunk[i].start < currentStart)
    /\ [][/\ (pc = "save" /\ Len(items) < MAX_RECORDS_PER_CALL /\ pc' # "failed") =>
                /\ pc' = "window"
                /\ currentStart' = currentEnd + 1
                /\ fetches' = fetches
                /\ csv'[typ] = csv[typ] \o RowsOfSave(typ, items)
                /\ Hashes(items) \subseteq handed'[typ]
          /\ (pc = "fetch" /\ fetches' = fetches + 1 /\ attemptErrs' = attemptErrs
                /\ FetchedPage = <<>>) =>
                /\ pc' = "window"
                /\ currentStart' = currentEnd + 1]_vars

C15_Witness ==
    /\ pc = "window"
    /\ sunk # <<>>
    /\ sunk[Len(sunk)].items # <<>>
    /\ Len(sunk[Len(sunk)].items) < MAX_RECORDS_PER_CALL
    /\ page > 1
    /\ LoopCondition(currentStart, endBlock)

\* The scenario of C16 has just happened: with no failed call, page 1 of the
\* last window visited was full and saved, and page 2 came back empty.
FullPageThenEmpty ==
    /\ ~failedFetch
    /\ pc = "window"
    /\ page = 2
    /\ currentStart = currentEnd + 1
    /\ visited # <<>>
    /\ sunk # <<>>
    /\ LET s == sunk[Len(sunk)] IN
          /\ s.type = typ /\ s.page = 1
          /\ s.start = visited[Len(visited)][1] /\ s.end = currentEnd
          /\ Len(s.items) = MAX_RECORDS_PER_CALL

\* C16: after a full page 1 and an empty page 2 of a window, exactly one page
\* of items has been saved for the window, no third page is requested, and the
\* cursor of the type is the window's end block.
C16_FullThenEmptyPage ==
    FullPageThenEmpty =>
        /\ Cardinality({i \in 1..Len(sunk) : sunk[i].start = sunk[Len(sunk)].start})  = 1
        /\ Cardinality({i \in 1..Len(csv[typ]) :
                            /\ csv[typ][i].blockNumber >= sunk[Len(sunk)].start
                            /\ csv[typ][i].blockNumber <= currentEnd})
              = MAX_RECORDS_PER_CALL
        /\ LastBlock(state, typ) = currentEnd

\* C17: with resume set and a stored cursor L > 0 of a data type, the batch of
\* that type starts at L + 1 and so does its first window, whatever the other
\* types' cursors are; a stored 50099 with endBlock 100099 gives the first
\* window [50100, 100099].
C17_ResumePoint ==
    /\ (pc # "idle" /\ opts.resume /\ snap # NoState /\ LastBlock(snap, typ) > 0) =>
          /\ startBlock = LastBlock(snap, typ) + 1
          /\ (visited # <<>> => visited[1][1] = LastBlock(snap, typ) + 1)
    /\ LET o == [DefaultOptions EXCEPT !.resume = TRUE, !.startBlock = 100,
                                       !.endBlock = 100099]
           st == [InitialState EXCEPT
                     !.transactionTypes["normal"].lastBlock = 50099,
                     !.transactionTypes["internal"].lastBlock = 70000,
                     !.lastProcessedBlock = 70000]
           s == StartBlockOf("normal", o, st)
       IN /\ <<s, WindowEndW(s, o.endBlock, 50000)>> = <<50100, 100099>>
          /\ StartBlockOf("internal", o, st) = 70001
          /\ StartBlockOf("tokenTransfers", o, st) = 100

C17_Witness ==
    /\ opts.resume
    /\ snap # NoState
    /\ typ = "internal"
    /\ visited # <<>>
    /\ LastBlock(snap, "internal") > 0
    /\ LastBlock(snap, "normal") > LastBlock(snap, "internal")

\* C18: with startBlock omitted, a run without resume starts every data type
\* at block 0 whatever cursor is stored; a run with resume starts it from the
\* stored cursor of the type (the block after it), and at block 0 when no state
\* or no progress of the type is stored.
C18_StartPoint ==
    (pc # "idle" /\ opts.startBlock = Omitted) =>
        /\ ~opts.resume => startBlock = 0
        /\ (opts.resume /\ state0 = InitialState) => startBlock = 0
        /\ opts.resume =>
              startBlock = IF snap = NoState \/ LastBlock(snap, typ) = 0
                           THEN 0
                           ELSE LastBlock(snap, typ) + 1

C18_Witness ==
    /\ opts.startBlock = Omitted
    /\ ~opts.resume
    /\ runs = 2
    /\ LastBlock(state0, typ) > 0
    /\ visited # <<>>
    /\ visited[1][1] = 0

\* C19: two successive calls are never started less than
\* timeWindow / requestsPerSecond apart (200 ms for 5 calls per 1000 ms), so
\* among any requestsPerSecond + 1 successive calls the last starts at least a
\* timeWindow after the first.
C19_RateCompliance ==
    /\ \A i \in 1..(Len(released) - 1) :
          released[i + 1][2] - released[i][2] >= MinInterval
    /\ \A i \in 1..(Len(released) - requestsPerSecond) :
          released[i + requestsPerSecond][2] - released[i][2] >= timeWindow
    /\ IntervalOf(1000, 5) = 200

C19_Witness ==
    /\ Len(released) = MaxCalls
    /\ \A i \in 1..(Len(released) - 1) :
          released[i + 1][2] - released[i][2] = MinInterval
    /\ \E i \in 1..Len(loops) : loops[i].pc = "running"

\* C20: calls are started in the order in which they were scheduled, one at a
\* time: no call is started while another has not settled, and at most one
\* processQueue loop is active.
C20_FifoOneAtATime ==
    /\ \A i \in 1..Len(released) : released[i][1] = i
    /\ Cardinality(inFlight) <= 1
    /\ Cardinality({i \in 1..Len(loops) : loops[i].pc \in {"sleeping", "running"}}) <= 1
    /\ \A i \in 1..Len(loops) : loops[i].pc # "crashed"

C20_Witness ==
    /\ Len(released) >= 2
    /\ inFlight # {}
    /\ gateQueue # <<>>
    /\ Len(loops) >= 2

\* Loop i comes to the top of its while loop in this step: processQueue has
\* just been started by schedule(), or the call the loop awaited has settled.
AtLoopTop ==
    \/ scheduled' # scheduled /\ ~processing
    \/ \E i \in 1..Len(loops) : loops[i].pc = "running" /\ loops'[i].pc # "running"

FallsAsleep(i) ==
    /\ i <= Len(loops')
    /\ loops'[i].pc = "sleeping"
    /\ (i > Len(loops) \/ loops[i].pc # "sleeping")

ReleasedCalls == {released[i][1] : i \in 1..Len(released)}
SettledPromises == {outcomes[k].promise : k \in 1..Len(outcomes)}

\* C22: with several producers scheduling on one RateLimiter in any
\* interleaving, any two calls are started at least the minimum interval
\* apart, every scheduled call is waiting or has been started exactly once, and
\* every promise is settled once, by the call of the producer that holds it.
C22_SharedGate ==
    /\ \A i, j \in 1..Len(released) :
          i < j => released[j][2] - released[i][2] >= MinInterval
    /\ NoDuplicates([i \in 1..Len(released) |-> released[i][1]])
    /\ Range(gateQueue) \cup ReleasedCalls = 1..scheduled
    /\ Range(gateQueue) \cap ReleasedCalls = {}
    /\ NoDuplicates(gateQueue)
    /\ Len(owner) = scheduled
    /\ \A k \in 1..Len(outcomes) :
          /\ outcomes[k].promise = outcomes[k].call
          /\ owner[outcomes[k].promise] = owner[outcomes[k].call]
    /\ NoDuplicates([k \in 1..Len(outcomes) |-> outcomes[k].promise])
    /\ SettledPromises = ReleasedCalls \ inFlight

C22_Witness ==
    /\ scheduled = MaxCalls
    /\ Range(owner) = Producers
    /\ owner[1] # owner[2]
    /\ Len(outcomes) = MaxCalls
    /\ \E k \in 1..Len(outcomes) : outcomes[k].ok
    /\ \E k \in 1..Len(outcomes) : ~outcomes[k].ok
    /\ released[2][2] = released[1][2] + MinInterval

\* The window just left held no items: nothing of it was handed to the sink.
EmptyWindowLeft ==
    /\ pc = "window"
    /\ visited # <<>>
    /\ currentStart = currentEnd + 1
    /\ visited[Len(visited)][2] = currentEnd
    /\ \A i \in 1..Len(sunk) :
          ~(sunk[i].type = typ /\ sunk[i].start = visited[Len(visited)][1])

\* C23: when a window without items is left, the cursor of the type stands at
\* (or beyond) the window's end, so a batch whose range ends with empty windows
\* is over with lastBlock >= endBlock.
C23_EmptyWindowAdvances ==
    /\ EmptyWindowLeft => LastBlock(state, typ) >= currentEnd
    /\ (EmptyWindowLeft /\ BatchOver) => LastBlock(state, typ) >= endBlock

\* state.json after the saves of `log`, made in order on `st`
RECURSIVE AfterSaves(_, _)
AfterSaves(st, log) ==
    IF log = <<>> THEN st
    ELSE AfterSaves(StateAfterSave(st, log[1].type, log[1].items), Tail(log))

\* C24: a fetch error that is not recovered ends the run with state.json as
\* the last successful save left it (every cursor and count), the rows of the
\* files untouched, and no provider call or window after the failing one.
C24_FatalFetchKeepsState ==
    /\ []((pc = "failed" /\ thrown # ErrStorage) =>
            /\ state = AfterSaves(state0, sunk)
            /\ visited[Len(visited)] = <<currentStart, currentEnd>>
            /\ \A i \in 1..Len(sunk) :
                  sunk[i].type = typ => sunk[i].start <= currentStart)
    /\ [][/\ (pc = "fetch" /\ pc' = "failed") =>
                state' = state /\ csv' = csv /\ visited' = visited /\ sunk' = sunk
          /\ (pc = "failed" /\ runs' = runs) =>
                fetches' = fetches /\ visited' = visited /\ state' = state]_vars

C24_Witness ==
    /\ pc = "failed"
    /\ thrown # ErrStorage
    /\ sunk # <<>>
    /\ Count(state, typ) > 0
    /\ LoopCondition(currentEnd + 1, endBlock)

\* C25: state.json changes in a save only in the step that has written every
\* row of the batch, and a save that fails ends with a StorageError and leaves
\* lastBlock, count and lastProcessedBlock as they were.
C25_CursorAfterWrite ==
    [][/\ (pc = "save" /\ state' # state) =>
              /\ csv'[typ] = csv[typ] \o RowsOfSave(typ, items)
              /\ pc' # "failed"
       /\ (pc = "save" /\ pc' = "failed") =>
              /\ thrown' = ErrStorage
              /\ state' = state]_vars

C25_Witness ==
    /\ pc = "failed"
    /\ thrown = ErrStorage
    /\ Len(sunk) >= 2
    /\ Count(state, typ) > 0
    /\ Len(csv[typ]) = Count(state, typ)

AllZero(st) ==
    /\ st.lastProcessedBlock = 0
    /\ st.totalTransactions = 0
    /\ \A t \in Types : LastBlock(st, t) = 0 /\ Count(st, t) = 0
    /\ st.events.lastBlock = 0 /\ st.events.count = 0

\* saveOrganization runs in this step (called directly, or by analyzeOrganization)
SavesOrganization ==
    \/ saves' # saves /\ lastSave'.op = "saveOrganization"
    \/ runs' # runs

\* C26: saveOrganization creates state.json with every cursor and count at 0
\* when there is none and leaves an existing one as it is; once created,
\* state.json is never removed and no cursor or count in it ever goes down.
C26_StateLifecycle ==
    [][/\ (SavesOrganization /\ state = NoState) => (state' # NoState /\ AllZero(state'))
       /\ (SavesOrganization /\ state # NoState) => state' = state
       /\ state # NoState =>
              /\ state' # NoState
              /\ state'.lastProcessedBlock >= state.lastProcessedBlock
              /\ state'.totalTransactions >= state.totalTransactions
              /\ state'.events.lastBlock >= state.events.lastBlock
              /\ state'.events.count >= state.events.count
              /\ \A t \in Types :
                    /\ LastBlock(state', t) >= LastBlock(state, t)
                    /\ Count(state', t) >= Count(state, t)]_vars

C26_Witness ==
    /\ lastSave.op = "saveOrganization"
    /\ saves = 2
    /\ state # NoState
    /\ ~AllZero(state)

\* the pages of the window [cs, ..] of the current type handed to the sink
PagesSunk(cs) == {i \in 1..Len(sunk) : sunk[i].type = typ /\ sunk[i].start = cs}

\* C27: a page is requested only when every earlier page of its window has
\* been handed to the sink, once, so the page numbers of a window run 1, 2,
\* 3, ...; a page fetched is saved before anything else is requested; and each
\* window entered begins right after the end of the one before it (or is the
\* one before it begun again, with no page of it saved).
C27_StrictOrdering ==
    /\ pc = "fetch" =>
          /\ page = Cardinality(PagesSunk(currentStart)) + 1
          /\ \A i \in PagesSunk(currentStart) :
                Len(sunk[i].items) = MAX_RECORDS_PER_CALL
          /\ items = <<>>
    /\ pc = "save" =>
          /\ items # <<>>
          /\ page = Cardinality(PagesSunk(currentStart)) + 1
    /\ \A i \in 1..(Len(visited) - 1) :
          \/ visited[i + 1][1] = visited[i][2] + 1
          \/ visited[i + 1] = visited[i]
    /\ \A i \in 1..Len(sunk) : sunk[i].type = typ => sunk[i].start <= currentStart

\* C28: when a run has ended on a fatal error in one data type, every other
\* requested data type has been collected: none is left waiting, and every
\* item of theirs in the requested range has been handed to the sink.
C28_FailureIsolation ==
    pc = "failed" =>
        /\ queue = <<>>
        /\ \A t \in Range(TypesOf(opts)) \ {typ} : \A i \in 1..Len(chain[t]) :
              (chain[t][i] >= OrElse(opts.startBlock, 0) /\ chain[t][i] <= endBlock)
                  => i \in handed[t]

\* a save of a non-empty batch succeeds in this step
SavesBatch == saves' # saves /\ lastSave'.op = "save" /\ lastSave'.batch # <<>>

\* C29: a successful save of n >= 1 items of a type whose greatest block
\* number is b leaves lastBlock = max(lastBlock, b) and count = count + n for
\* that type; so the count of a type is always the number of items saved for
\* it, the sum of the sizes of its batches.
C29_SaveAdvance ==
    /\ [](\A t \in Types :
            Len(csv[t]) = IF state = NoState THEN 0 ELSE Count(state, t))
    /\ [][SavesBatch =>
            LET T == lastSave'.type
                n == Len(lastSave'.batch)
                b == MaxOf(BlockNumbers(lastSave'.batch))
                old == initializeState(state)
            IN /\ LastBlock(state', T) = Max(LastBlock(old, T), b)
               /\ Count(state', T) = Count(old, T) + n
               /\ \A t \in Types \ {T} :
                     /\ LastBlock(state', t) = LastBlock(old, t)
                     /\ Count(state', t) = Count(old, t)]_vars

C29_Witness ==
    /\ saves = 2
    /\ lastSave.op = "save"
    /\ lastSave.type = "tokenTransfers"
    /\ lastSave.batch # <<>>
    /\ Count(state, "tokenTransfers") > Len(lastSave.batch)
    /\ LastBlock(state, "tokenTransfers") > MaxOf(BlockNumbers(lastSave.batch))

LoopActive == \E i \in 1..Len(loops) : loops[i].pc \in {"sleeping", "running"}

\* C30: every call passed to schedule() is started, once, and its promise is
\* settled in the end, whenever it was scheduled; and the processing flag is
\* set exactly while a processQueue loop is active, so a call is never left
\* in the queue with no loop to take it.
C30_EveryCallSettles ==
    /\ [](/\ processing <=> LoopActive
          /\ gateQueue # <<>> => LoopActive
          /\ NoDuplicates([i \in 1..Len(released) |-> released[i][1]]))
    /\ \A c \in 1..MaxCalls :
          (scheduled >= c) ~> (c \in ReleasedCalls /\ c \in SettledPromises)

C30_Witness ==
    /\ scheduled = MaxCalls
    /\ SettledPromises = 1..MaxCalls
    /\ Len(loops) >= 2
    /\ loops[1].pc = "ended"
    /\ gateQueue = <<>>
    /\ ~processing

\* C31: a function that throws rejects the promise of its own schedule() call
\* and no other; processQueue goes on, and every call queued is still started,
\* in the order of scheduling.
C31_ErrorIsolation ==
    /\ [](/\ \A k \in 1..Len(outcomes) :
                /\ outcomes[k].promise = outcomes[k].call
                /\ outcomes[k].resolved = outcomes[k].ok
          /\ Cardinality({k \in 1..Len(outcomes) : ~outcomes[k].resolved})
                = Cardinality({outcomes[k].call : k \in {j \in 1..Len(outcomes) : ~outcomes[j].ok}})
          /\ \A i \in 1..Len(loops) : loops[i].pc # "crashed"
          /\ \A i \in 1..Len(released) : released[i][1] = i
          /\ ((\E k \in 1..Len(outcomes) : ~outcomes[k].ok) /\ gateQueue # <<>>)
                => LoopActive)
    /\ \A c \in 1..MaxCalls :
          (scheduled >= c /\ \E k \in 1..Len(outcomes) : ~outcomes[k].ok)
              ~> (c \in ReleasedCalls)

C31_Witness ==
    /\ Len(outcomes) = MaxCalls
    /\ ~outcomes[1].ok
    /\ ~outcomes[1].resolved
    /\ \A k \in 2..Len(outcomes) : outcomes[k].resolved
    /\ Len(loops) = 1

\* C32: any two requests sent by one EtherscanClient are at least
\* MIN_REQUEST_INTERVAL apart, also when makeRequest calls overlap.
C32_MinRequestInterval ==
    \A k \in 1..(Len(sent) - 1) : sent[k + 1][2] - sent[k][2] >= MIN_REQUEST_INTERVAL

\* C33: one makeRequest call makes at most MAX_RETRIES + 1 HTTP attempts and
\* then ends: rate-limit replies and connection errors count on the same
\* retryCount, the wait before retry k is INITIAL_RETRY_DELAY * 2^k, an attempt
\* made with the counter exhausted is not retried, the error the call ends with
\* is an EtherscanError, and every call returns or throws in the end.
C33_Ended(i) == reqs[i].pc \in {"returned", "threw"}

C33_Bounded ==
    \A i \in 1..Len(reqs) :
        /\ reqs[i].sends <= CLIENT_MAX_RETRIES + 1
        /\ reqs[i].retryCount <= CLIENT_MAX_RETRIES
        /\ Len(reqs[i].waits) \in {reqs[i].retryCount, reqs[i].retryCount + 1}
        /\ Len(reqs[i].waits) = Len(reqs[i].causes)
        /\ reqs[i].pc = "backoff" <=> Len(reqs[i].waits) = reqs[i].retryCount + 1
        /\ \A k \in 1..Len(reqs[i].waits) :
               reqs[i].waits[k] = INITIAL_RETRY_DELAY * (2 ^ (k - 1))
        /\ reqs[i].pc = "threw" => reqs[i].error.etherscan
        /\ reqs[i].pc # "threw" => reqs[i].error = NoError

C33_Milliseconds ==
    [k \in 1..CLIENT_MAX_RETRIES |-> BackoffOf(1000, k - 1)] = <<1000, 2000, 4000>>

C33_ExhaustedStep ==
    \A i \in 1..Len(reqs) :
        (reqs[i].pc = "sent" /\ reqs[i].retryCount = CLIENT_MAX_RETRIES /\ reqs'[i] # reqs[i])
            => C33_Ended(i)'

C33_Terminates ==
    /\ [](C33_Bounded /\ C33_Milliseconds)
    /\ [][C33_ExhaustedStep]_vars
    /\ \A i \in 1..MaxRequests : (Len(reqs) >= i) ~> (Len(reqs) >= i /\ C33_Ended(i))

C33_Witness ==
    \E i \in 1..Len(reqs) :
        /\ reqs[i].pc = "threw"
        /\ reqs[i].sends = CLIENT_MAX_RETRIES + 1
        /\ reqs[i].waits = <<INITIAL_RETRY_DELAY, 2 * INITIAL_RETRY_DELAY, 4 * INITIAL_RETRY_DELAY>>
        /\ {reqs[i].causes[k] : k \in 1..3} = {"rateLimited", "connection"}

\* C34: withRetry retries every failure of the operation. A call that ended
\* with an error invoked the operation exactly maxRetries + 1 times, waited
\* 2^k * 1000 ms before retry k and threw a ProviderError with the message of
\* the last error; a call that returned did so on the first attempt that
\* succeeded; a call in progress has retried, or is about to retry, every
\* failure so far.
C34_Attempts(c) ==
    /\ Len(c.waits) = Len(c.starts) - 1 \/ (Len(c.starts) = 0 /\ c.waits = <<>>)
    /\ \A k \in 1..Len(c.waits) :
           /\ c.waits[k] = RetryDelayOf(RETRY_UNIT, k - 1)
           /\ c.starts[k + 1] >= c.thrown[k].at + c.waits[k]
    /\ Len(c.starts) <= maxRetries + 1

C34_Finished(e) ==
    /\ C34_Attempts(e)
    /\ e.result = "threw" =>
           /\ Len(e.starts) = maxRetries + 1
           /\ Len(e.thrown) = maxRetries + 1
           /\ e.error = [name |-> "ProviderError", message |-> e.thrown[Len(e.thrown)].message]
    /\ e.result = "returned" =>
           /\ Len(e.thrown) = Len(e.starts) - 1
           /\ e.error = NoError

C34_InProgress(c) ==
    /\ c.pc = "running" => C34_Attempts(c) /\ Len(c.thrown) = Len(c.starts) - 1
    /\ c.pc = "backoff" =>
           /\ Len(c.waits) = Len(c.starts)
           /\ Len(c.thrown) = Len(c.starts)
           /\ Len(c.starts) <= maxRetries
    /\ c.pc = "rateLimit" => C34_Attempts([c EXCEPT !.waits = SubSeq(@, 1, Len(c.starts) - 1)])

RECURSIVE C34_StartsOfLog(_)
C34_StartsOfLog(log) == IF log = <<>> THEN 0 ELSE Len(Head(log).starts) + C34_StartsOfLog(Tail(log))

C34_WithRetry ==
    /\ \A i \in 1..Len(provLog) : C34_Finished(provLog[i])
    /\ provCall # NoCall => C34_InProgress(provCall)
    /\ C34_StartsOfLog(provLog) = Len(provStarted) - (IF provCall = NoCall THEN 0 ELSE Len(provCall.starts))
    /\ [k \in 1..maxRetries |-> RetryDelayOf(1000, k - 1)] = <<1000, 2000, 4000>>

C34_Witness ==
    /\ Len(provLog) = 2
    /\ provLog[1].result = "threw"
    /\ provLog[1].thrown[1].message # provLog[1].thrown[maxRetries + 1].message
    /\ provLog[2].result = "returned"
    /\ Len(provLog[2].thrown) = 2

\* C35: successive operations started through withRetry are at least
\* rateLimitDelay apart.
C35_RateLimit ==
    \A k \in 1..(Len(provStarted) - 1) : provStarted[k + 1] - provStarted[k] >= rateLimitDelay

\* C36: a save of items of one data type leaves lastBlock and count of every
\* other data type (and of the events) as they were, and a save with an empty
\* batch leaves state.json and the data files as they were.
C36_IndependentCursors ==
    [][/\ (saves' # saves /\ lastSave'.op \in {"save", "saveContractEvents"}
              /\ lastSave'.batch = <<>>) =>
            /\ state' = state
            /\ csv' = csv
            /\ eventsFile' = eventsFile
       /\ SavesBatch =>
            /\ \A t \in Types \ {lastSave'.type} :
                   state'.transactionTypes[t] = initializeState(state).transactionTypes[t]
            /\ state'.events = initializeState(state).events
            /\ \A t \in Types \ {lastSave'.type} : csv'[t] = csv[t]]_vars

C36_Witness ==
    /\ saves = 2
    /\ lastSave.op = "save"
    /\ lastSave.batch # <<>>
    /\ \E t \in Types \ {lastSave.type} : Count(state, t) > 0 /\ LastBlock(state, t) > 0

SavesEvents == saves' # saves /\ lastSave'.op = "saveContractEvents" /\ lastSave'.batch # <<>>

\* C37: totalTransactions is the sum of the counts of the normal and the
\* internal transactions; a save of token transfers or of events adds the size
\* of its batch to its own count and leaves totalTransactions as it was.
C37_TotalTransactions ==
    /\ [](state # NoState =>
            state.totalTransactions = Count(state, "normal") + Count(state, "internal"))
    /\ [][/\ (SavesBatch /\ lastSave'.type = "tokenTransfers") =>
               /\ Count(state', "tokenTransfers") =
                      Count(initializeState(state), "tokenTransfers") + Len(lastSave'.batch)
               /\ state'.totalTransactions = initializeState(state).totalTransactions
          /\ (SavesEvents /\ state # NoState) =>
               /\ state'.events.count = state.events.count + Len(lastSave'.batch)
               /\ state'.totalTransactions = state.totalTransactions]_vars

C37_Witness ==
    /\ lastSave.op = "saveContractEvents"
    /\ lastSave.batch # <<>>
    /\ state # NoState
    /\ state.events.count > 0
    /\ state.totalTransactions > 0

C38_SameKey(file, a, b) ==
    /\ a.proposalId.n = b.proposalId.n
    /\ file = "votes" => a.voter = b.voter

C38_Keyed(file, list) ==
    /\ \A i, j \in 1..Len(list) : C38_SameKey(file, list[i], list[j]) => i = j
    /\ \A i \in 1..(Len(list) - 1) : list[i].blockNumber <= list[i + 1].blockNumber

\* the entry of each key is the first of those with the greatest blockNumber
\* among the entries stored before and the entries of the batch, in that order
C38_Winners(file, old, batch, new) ==
    LET cands == old \o JSONOf(batch)
        Same(x) == {i \in 1..Len(cands) : C38_SameKey(file, cands[i], x)}
        Top(x) == MaxOf([i \in 1..Len(cands) |->
                            IF i \in Same(x) THEN cands[i].blockNumber ELSE 0])
        First(x) == CHOOSE i \in Same(x) :
                        /\ cands[i].blockNumber = Top(x)
                        /\ \A j \in Same(x) : cands[j].blockNumber = Top(x) => i <= j
    IN /\ \A i \in 1..Len(new) : Same(new[i]) # {} /\ new[i] = cands[First(new[i])]
       /\ \A i \in 1..Len(cands) : \E j \in 1..Len(new) : C38_SameKey(file, cands[i], new[j])

C38_Saved == daoSaves' # daoSaves /\ daoLast'.error = NoError

C38_SavedAgain ==
    /\ daoSaves > 0
    /\ C38_Saved
    /\ daoLast.error = NoError
    /\ daoLast'.file = daoLast.file
    /\ daoLast'.batch = daoLast.batch

\* C38: saving the same batch of proposals (or votes) twice stores the list
\* that saving it once stores; the stored list has at most one entry per
\* proposalId (per proposalId and voter for votes), the one with the greatest
\* blockNumber, an entry stored before being kept on equal blockNumber; and
\* the stored list is sorted by blockNumber ascending.
C38_IdempotentKeyed ==
    /\ [](/\ C38_Keyed("proposals", ReadList(proposalsFile))
          /\ C38_Keyed("votes", ReadList(votesFile)))
    /\ [][/\ C38_SavedAgain => (proposalsFile' = proposalsFile /\ votesFile' = votesFile)
          /\ (C38_Saved /\ daoLast'.file = "proposals") =>
                C38_Winners("proposals", ReadList(proposalsFile), daoLast'.batch,
                            ReadList(proposalsFile'))
          /\ (C38_Saved /\ daoLast'.file = "votes") =>
                C38_Winners("votes", ReadList(votesFile), daoLast'.batch,
                            ReadList(votesFile'))]_vars

\* C39: writeJSONSafely is all-or-nothing for one writer. When writing the
\* temporary file or renaming it fails, the call ends with a StorageError, the
\* target holds the complete content it had before the call and the temporary
\* file is gone; when the call returns, the target holds the new content and
\* no temporary or backup file is left.
C39_AllOrNothing ==
    /\ (fileCall.pc = "threw" /\ fileCall.failedAt \in {"writeTemp", "rename"}) =>
           /\ fileCall.error = ErrStorage
           /\ fileTarget = fileCall.before
           /\ fileTemp = NoFile
    /\ fileCall.pc = "returned" =>
           /\ fileCall.error = NoError
           /\ fileTarget = FileOf(fileCall.data)
           /\ fileTemp = NoFile
           /\ fileBackup = NoFile

C39_Witness ==
    /\ fileCall.pc = "threw"
    /\ fileCall.failedAt = "rename"
    /\ fileCall.createBackups
    /\ fileCall.before # NoFile
    /\ fileCall.before # FileOf(fileCall.data)

=============================================================================
